---- MODULE Spec2Model ----
(***************************************************************************)
(* Tunai-scrapers benchmark harness: the process supervisor of             *)
(* benchmarks/runner.py (BenchmarkRunner._execute_benchmark and            *)
(* _run_process), and the record analyzers of benchmarks/quality_metrics.py *)
(* and benchmarks/enhanced_metrics.py.                                      *)
(*                                                                          *)
(* Spec        : one benchmark run, the supervised process and the clock.   *)
(* SpecMetrics : the analyzers applied to a record list and its reorderings.*)
(* SpecLoop    : the poll loop with a supervisor that keeps running.        *)
(* SpecSampler : the poll loop with the resource sampler of                 *)
(*               benchmarks/metrics.py on a host whose memory, load and     *)
(*               descendant processes change.                               *)
(* SpecCpu     : the same loop on a host whose processor load changes.      *)
(* SpecCalls   : concurrent calls of BenchmarkRunner.run_benchmark and the  *)
(*               paths they write.                                          *)
(* SpecThreads : the analyzers applied to records with thread urls and      *)
(*               thread fields.                                             *)
(* SpecSpider  : the page limit of tunai_scrapers/spiders/spider_base.py    *)
(*               over the responses a spider's parse is called with.        *)
(***************************************************************************)
EXTENDS Integers, Sequences, FiniteSets, TLC

VARIABLES
    \* ---- the supervised process and its environment
    executable_exists,  \* whether subprocess.Popen(command) can start the command
    procState,          \* "notstarted" | "running" | "exited"
    procExit,           \* the process's own return code once it has exited
    now,                \* time.time(), in sampling intervals
    files,              \* content of each declared output file: a sequence of lines
    created,            \* the declared output files that exist
    \* ---- BenchmarkRunner._execute_benchmark / _run_process
    pc,                 \* position of the supervisor
    metrics_start,      \* MetricsCollector._start_time
    start_time,         \* start_time of _run_process
    elapsed,            \* time.time() - start_time as last computed at line 401
    exit_code,          \* value returned by _run_process
    killed,             \* process.kill() was called
    poll_tie,           \* last poll saw the exit while the timeout was exceeded
    polled,             \* what process.poll() returned last: "unpolled" | "None" | "code"
    samples,            \* number of metrics.sample() calls
    items_count,        \* items_count of _execute_benchmark
    success,            \* success of _execute_benchmark
    result_dict,        \* the report mapping
    result_files,       \* result documents written by _save_results
    raised,             \* the call that raised out of _execute_benchmark, or "none"
    \* ---- the analyzers
    items,              \* the record list handed to the analyzers
    base,               \* <<analysis of the list in its first order, that list>>, or <<>>
    cur,                \* <<analysis of the list in its current order>>, or <<>>
    \* ---- the host as psutil sees it
    pid_visible,        \* psutil.Process(pid) finds the process and may read it
    rss,                \* resident memory of the supervised process, in MB
    children,           \* live descendants of the supervised process
    cpu_load,           \* what cpu_percent(None) reads for the process
    \* ---- MetricsCollector
    target_process,     \* self._target_process: "None" | "Process"
    peak_memory,        \* self._peak_memory
    cpu_samples,        \* self._cpu_samples
    cpu_readings,       \* what cpu_percent(None) returned to sample(), call by call
    last_sample,        \* what the last sample() call read
    \* ---- calls of run_benchmark
    wall_clock,         \* time.strftime's clock, in seconds
    calls,              \* per call: position, arguments and the names it derived
    written,            \* <<path, call>> for every path a call created or wrote
    \* ---- TunaiScrapersSpider
    max_pages,          \* self.max_pages
    pages_visited,      \* self.pages_visited
    visited_urls,       \* self.visited_urls
    closing,            \* self.closing
    responses,          \* number of responses handed to parse so far
    last_response,      \* the last response and what should_process_page did with it
    processed           \* normalized urls should_process_page returned True for

envVars == <<executable_exists, procState, procExit, now, files, created>>
runVars == <<pc, metrics_start, start_time, elapsed, exit_code, killed, poll_tie, polled,
             samples, items_count, success, result_dict, result_files, raised>>
metricVars == <<items, base, cur>>
hostVars == <<pid_visible, rss, children, cpu_load>>
collectorVars == <<target_process, peak_memory, cpu_samples, cpu_readings, last_sample>>
callVars == <<wall_clock, calls, written>>
spiderVars == <<max_pages, pages_visited, visited_urls, closing, responses, last_response,
               processed>>
vars == <<envVars, runVars, metricVars, hostVars, collectorVars, callVars, spiderVars>>

-----------------------------------------------------------------------------
(* Bounds of the model. *)
MaxItems == 3
MaxLines == 2
MaxTime == 3
TimeoutTicks == 2
MaxRss == 2
MaxChildren == 2
MaxCalls == 2
MaxSeconds == 1
MaxPages == 2
MaxResponses == 4

-----------------------------------------------------------------------------
(* JSON values as Python sees them after json.loads. Strings are sequences   *)
(* of one-character strings. Booleans, floats and objects nested in a field  *)
(* are left out; a line is always a JSON object or malformed.                *)

Absent == [k |-> "absent", s |-> <<>>, n |-> 0]
Null == [k |-> "null", s |-> <<>>, n |-> 0]
JList == [k |-> "list", s |-> <<>>, n |-> 1]
Str(chars) == [k |-> "str", s |-> chars, n |-> 0]
Num(i) == [k |-> "num", s |-> <<>>, n |-> i]

IsStr(v) == v.k = "str"

\* bool(v): None, "", 0 are false; the list value is the non-empty [1]
Truthy(v) ==
    \/ v.k = "str" /\ v.s # <<>>
    \/ v.k = "num" /\ v.n # 0
    \/ v.k = "list"

\* a or b
PyOr(a, b) == IF Truthy(a) THEN a ELSE b

\* hash(v) raises TypeError for a list
Hashable(v) == v.k # "list"

TEXT_FIELDS == <<"text", "content", "body", "message", "description", "summary">>
URL_FIELDS == <<"url", "link", "href", "source_url", "thread_url", "post_url", "page_url">>
ID_FIELDS == <<"id", "post_id", "comment_id", "message_id", "item_id", "_id">>
AUTHOR_FIELDS == <<"author", "user", "username", "user_name", "poster", "creator">>
DATE_FIELDS == <<"date", "datetime", "timestamp", "created_at", "posted_at", "time">>
MIN_NONTRIVIAL_TEXT_LENGTH == 50

Range(seq) == {seq[i] : i \in DOMAIN seq}

Fields ==
    Range(TEXT_FIELDS) \cup Range(URL_FIELDS) \cup Range(ID_FIELDS)
        \cup Range(AUTHOR_FIELDS) \cup Range(DATE_FIELDS) \cup {"thread_id", "topic_id"}

\* "field in item"
Has(item, field) == item[field].k # "absent"

\* item.get(field, default)
GetOr(item, field, default) == IF Has(item, field) THEN item[field] ELSE default

\* item.get(field)
Get(item, field) == GetOr(item, field, Null)

\* a record holding exactly the fields of given
Item(given) == [f \in Fields |-> IF f \in DOMAIN given THEN given[f] ELSE Absent]

-----------------------------------------------------------------------------
(* Rates: Python's true division, kept as an exact fraction. *)

Frac(a, b) == [num |-> a, den |-> b]
Zero == Frac(0, 1)

\* "a / b if b > 0 else 0"
RateOrZero(a, b) == IF b > 0 THEN Frac(a, b) ELSE Zero

FracEq(x, y) == x.num * y.den = y.num * x.den
InUnitInterval(x) == x.den > 0 /\ 0 <= x.num /\ x.num <= x.den

\* number of occurrences of v in seq
CountOf(seq, v) == Cardinality({i \in DOMAIN seq : seq[i] = v})

\* the number of occurrences of the first element, 0 for the empty sequence
CountOfFirst(seq) == IF seq = <<>> THEN 0 ELSE CountOf(seq, seq[1])

\* max(Counter(seq).values()), 0 for the empty sequence
MaxCount(seq) ==
    IF seq = <<>> THEN 0
    ELSE CHOOSE c \in 1..Len(seq) :
            /\ \E i \in DOMAIN seq : CountOf(seq, seq[i]) = c
            /\ \A i \in DOMAIN seq : CountOf(seq, seq[i]) <= c

-----------------------------------------------------------------------------
(* Text helpers over character sequences. *)

\* left fold: each analyzer is a "for item in items" loop over accumulators
RECURSIVE FoldItems(_, _, _, _)
FoldItems(Step(_, _), acc, seq, i) ==
    IF i > Len(seq) THEN acc ELSE FoldItems(Step, Step(acc, seq[i]), seq, i + 1)

\* pattern occurs in s at position i
MatchesAt(s, i, pattern) ==
    /\ i + Len(pattern) - 1 <= Len(s)
    /\ SubSeq(s, i, i + Len(pattern) - 1) = pattern

\* "pattern in s"
Contains(s, pattern) == \E i \in 1..Len(s) : MatchesAt(s, i, pattern)

\* s.split(pattern)[1].split("/")[0] for a string that contains pattern
SegmentAfter(s, pattern) ==
    LET i == CHOOSE j \in 1..Len(s) :
                 MatchesAt(s, j, pattern) /\ \A h \in 1..(j - 1) : ~MatchesAt(s, h, pattern)
        rest == SubSeq(s, i + Len(pattern), Len(s))
        stop == {j \in 1..Len(rest) : rest[j] = "/"}
        cut == IF stop = {} THEN Len(rest) + 1
               ELSE CHOOSE j \in stop : \A h \in stop : j <= h
    IN SubSeq(rest, 1, cut - 1)

\* value.strip() is non-empty
StripNonEmpty(s) == \E i \in 1..Len(s) : s[i] # " "

Digits == <<"0", "1", "2", "3", "4", "5", "6", "7", "8", "9">>
IsDigit(c) == c \in Range(Digits)
NotSlash(c) == c # "/"

\* str(n) of a non-negative int
RECURSIVE IntStr(_)
IntStr(n) == IF n < 10 THEN <<Digits[n + 1]>> ELSE IntStr(n \div 10) \o <<Digits[(n % 10) + 1]>>

\* str(v)
PyStr(v) ==
    CASE v.k = "str" -> v.s
      [] v.k = "num" -> IntStr(v.n)
      [] v.k = "list" -> <<"[", "1", "]">>
      [] OTHER -> <<"N", "o", "n", "e">>

\* hashlib.md5(text.encode()).hexdigest(): one digest per distinct text
Md5Hex(text) == [md5 |-> text]

-----------------------------------------------------------------------------
(* benchmarks/enhanced_metrics.py *)

DupInit == [err |-> FALSE, post_ids |-> <<>>, unique_posts |-> {}, duplicate_count |-> 0]

\* the loop body remembering only the digest of the last text seen
DupStepLastSeen(acc, item) ==
    LET post_id == PyOr(Get(item, "post_id"), Get(item, "id"))
        text == GetOr(item, "text", Str(<<>>))
        content_hash == Md5Hex(text.s)
    IN  IF acc.err THEN acc
        ELSE IF Truthy(post_id) /\ ~Hashable(post_id) THEN [acc EXCEPT !.err = TRUE]
        ELSE IF Truthy(text) /\ ~IsStr(text) THEN [acc EXCEPT !.err = TRUE]
        ELSE [err |-> FALSE,
              post_ids |-> IF Truthy(post_id) THEN Append(acc.post_ids, post_id)
                           ELSE acc.post_ids,
              unique_posts |-> IF Truthy(text) THEN {content_hash} ELSE acc.unique_posts,
              duplicate_count |-> IF Truthy(text) /\ content_hash \in acc.unique_posts
                                  THEN acc.duplicate_count + 1
                                  ELSE acc.duplicate_count]

\* body of the loop of analyze_duplication
DupStep(acc, item) ==
    LET post_id == PyOr(Get(item, "post_id"), Get(item, "id"))
        text == GetOr(item, "text", Str(<<>>))
        content_hash == Md5Hex(text.s)
    IN  IF acc.err THEN acc
        ELSE IF Truthy(post_id) /\ ~Hashable(post_id) THEN [acc EXCEPT !.err = TRUE]
        ELSE IF Truthy(text) /\ ~IsStr(text) THEN [acc EXCEPT !.err = TRUE]
        ELSE [err |-> FALSE,
              post_ids |-> IF Truthy(post_id) THEN Append(acc.post_ids, post_id)
                           ELSE acc.post_ids,
              unique_posts |-> IF Truthy(text) THEN acc.unique_posts \cup {content_hash}
                               ELSE acc.unique_posts,
              duplicate_count |-> IF Truthy(text) /\ content_hash \in acc.unique_posts
                                  THEN acc.duplicate_count + 1
                                  ELSE acc.duplicate_count]

AnalyzeDuplication(its) ==
    LET acc == FoldItems(DupStep, DupInit, its, 1)
        total_posts == Len(acc.post_ids)
        unique_post_ids == Cardinality(Range(acc.post_ids))
        unique_content == Cardinality(acc.unique_posts)
    IN  [err |-> acc.err,
         total_posts |-> total_posts,
         unique_post_ids |-> unique_post_ids,
         unique_content_hashes |-> unique_content,
         duplicate_count |-> acc.duplicate_count,
         duplication_rate |-> RateOrZero(acc.duplicate_count, total_posts),
         id_duplication_rate |-> RateOrZero(total_posts - unique_post_ids, total_posts),
         content_duplication_rate |-> RateOrZero(total_posts - unique_content, total_posts),
         duplicate_id_count |->
             Cardinality({p \in Range(acc.post_ids) : CountOf(acc.post_ids, p) > 1}),
         max_duplications |-> MaxCount(acc.post_ids)]

AuthorInit == [err |-> FALSE, posts_with_authors |-> 0, unique_authors |-> {}, null_authors |-> 0]

\* body of the loop of analyze_author_coverage
AuthorStep(acc, item) ==
    LET author == Get(item, "author")
    IN  IF acc.err THEN acc
        ELSE IF author.k = "null" THEN [acc EXCEPT !.null_authors = @ + 1]
        ELSE IF ~Hashable(author) THEN [acc EXCEPT !.err = TRUE]
        ELSE [acc EXCEPT !.posts_with_authors = @ + 1,
                         !.unique_authors = @ \cup {author}]

AnalyzeAuthorCoverage(its) ==
    LET acc == FoldItems(AuthorStep, AuthorInit, its, 1)
        total == Len(its)
    IN  [err |-> acc.err,
         posts_with_authors |-> acc.posts_with_authors,
         posts_without_authors |-> acc.null_authors,
         author_coverage_rate |-> RateOrZero(acc.posts_with_authors, total),
         unique_authors |-> Cardinality(acc.unique_authors),
         avg_posts_per_author |->
             RateOrZero(acc.posts_with_authors, Cardinality(acc.unique_authors))]

THREADS_MARK == <<"/", "t", "h", "r", "e", "a", "d", "s", "/">>

CrawlInit == [err |-> FALSE, threads |-> <<>>, pages |-> {}]

\* body of the loop of analyze_crawl_behavior; threads keeps one id per grouped item
CrawlStep(acc, item) ==
    LET thread_url == PyOr(Get(item, "thread_url"), GetOr(item, "url", Str(<<>>)))
        url == GetOr(item, "url", Str(<<>>))
        grouped == IsStr(thread_url) /\ Contains(thread_url.s, THREADS_MARK)
    IN  IF acc.err THEN acc
        ELSE IF thread_url.k \in {"null", "num"} THEN [acc EXCEPT !.err = TRUE]
        ELSE IF Truthy(url) /\ ~Hashable(url) THEN [acc EXCEPT !.err = TRUE]
        ELSE [err |-> FALSE,
              threads |-> IF grouped
                          THEN Append(acc.threads, SegmentAfter(thread_url.s, THREADS_MARK))
                          ELSE acc.threads,
              pages |-> IF Truthy(url) THEN acc.pages \cup {url} ELSE acc.pages]

AnalyzeCrawlBehavior(its) ==
    LET acc == FoldItems(CrawlStep, CrawlInit, its, 1)
        ids == Range(acc.threads)
        depths == {CountOf(acc.threads, t) : t \in ids}
    IN  [err |-> acc.err,
         unique_threads |-> Cardinality(ids),
         unique_pages |-> Cardinality(acc.pages),
         avg_thread_depth |-> RateOrZero(Len(acc.threads), Cardinality(ids)),
         min_thread_depth |-> IF depths = {} THEN 0
                              ELSE CHOOSE d \in depths : \A e \in depths : d <= e,
         max_thread_depth |-> IF depths = {} THEN 0
                              ELSE CHOOSE d \in depths : \A e \in depths : d >= e]


-----------------------------------------------------------------------------
(* benchmarks/quality_metrics.py: MetricsAnalyzer. self.metrics is a function *)
(* from the keys written so far to their values.                              *)

\* self.metrics[key] = value
Put(m, key, value) == (key :> value) @@ m

\* index of the first name of names that Ok accepts for the item, 0 if none
FirstField(item, names, Ok(_, _)) ==
    LET hits == {i \in DOMAIN names : Ok(item, names[i])}
    IN  IF hits = {} THEN 0 ELSE CHOOSE i \in hits : \A j \in hits : i <= j

\* the test of _extract_text: a str value with a non-blank character
IsPopulatedText(item, field) ==
    Has(item, field) /\ IsStr(item[field]) /\ StripNonEmpty(item[field].s)

\* the test of _analyze_authors and _analyze_temporal_data: present and truthy
IsPresentTruthy(item, field) == Has(item, field) /\ Truthy(item[field])

\* _extract_text
ExtractText(item, field_names) ==
    LET i == FirstField(item, field_names, IsPopulatedText)
    IN  IF i = 0 THEN <<>> ELSE item[field_names[i]].s

TextInit == [items_with_text |-> 0, items_with_nontrivial_text |-> 0,
             text_lengths |-> <<>>, total_text_length |-> 0]

\* body of the loop of _analyze_text_content
TextStep(acc, item) ==
    LET text == ExtractText(item, TEXT_FIELDS)
        text_len == Len(text)
    IN  IF text = <<>> THEN acc
        ELSE [items_with_text |-> acc.items_with_text + 1,
              items_with_nontrivial_text |->
                  IF text_len >= MIN_NONTRIVIAL_TEXT_LENGTH
                  THEN acc.items_with_nontrivial_text + 1
                  ELSE acc.items_with_nontrivial_text,
              text_lengths |-> Append(acc.text_lengths, text_len),
              total_text_length |-> acc.total_text_length + text_len]

\* smallest element of a non-empty sequence of numbers
MinOf(seq) == CHOOSE v \in Range(seq) : \A w \in Range(seq) : v <= w

\* first position of v in seq
IndexOf(seq, v) == CHOOSE i \in DOMAIN seq : seq[i] = v /\ \A j \in 1..(i - 1) : seq[j] # v

\* seq without its element at position i
DropAt(seq, i) == SubSeq(seq, 1, i - 1) \o SubSeq(seq, i + 1, Len(seq))

\* the list left as it was appended to
KeepOrder(seq) == seq

\* text_lengths.sort(): ascending
RECURSIVE SortAsc(_)
SortAsc(seq) ==
    IF seq = <<>> THEN <<>>
    ELSE <<MinOf(seq)>> \o SortAsc(DropAt(seq, IndexOf(seq, MinOf(seq))))

\* lines 186-196: the order statistics of the sorted lengths (Python indexes
\* from 0)
TextOrderStats(m, s) ==
    IF s = <<>> THEN m
    ELSE Put(Put(Put(Put(Put(m,
             "min_text_length", s[1]),
             "max_text_length", s[Len(s)]),
             "median_text_length", s[(Len(s) \div 2) + 1]),
             "text_length_p25", s[(Len(s) \div 4) + 1]),
             "text_length_p75", s[((3 * Len(s)) \div 4) + 1])

\* _analyze_text_content (the per-type averages are further keys of the same
\* block)
AnalyzeTextContent(m, its) ==
    LET acc == FoldItems(TextStep, TextInit, its, 1)
    IN  IF acc.items_with_text > 0
        THEN TextOrderStats(
                 Put(Put(Put(Put(Put(m,
                     "items_with_text", acc.items_with_text),
                     "items_missing_text", Len(its) - acc.items_with_text),
                     "non_trivial_text_rate", Frac(acc.items_with_nontrivial_text, Len(its))),
                     "avg_text_length", Frac(acc.total_text_length, acc.items_with_text)),
                     "total_text_chars", acc.total_text_length),
                 SortAsc(acc.text_lengths))
        ELSE m

\* _analyze_urls: the url counts (the per-domain and per-pattern tallies add
\* keys of their own and read no other state)
AnalyzeUrls(m, its) ==
    LET pageIdx == {i \in DOMAIN its :
                       /\ Has(its[i], "url")
                       /\ ~(Has(its[i], "thread_url") \/ Has(its[i], "post_id"))
                       /\ IsStr(its[i]["url"])}
        threadIdx == {i \in DOMAIN its :
                         Has(its[i], "thread_url") /\ IsStr(its[i]["thread_url"])}
        page_urls == {its[i]["url"] : i \in pageIdx}
        thread_urls == {its[i]["thread_url"] : i \in threadIdx}
        mentions == Cardinality(pageIdx) + Cardinality(threadIdx)
        counted == Put(Put(m, "unique_page_urls", Cardinality(page_urls)),
                       "unique_thread_urls", Cardinality(thread_urls))
    IN  IF mentions > 0
        THEN Put(Put(counted, "total_url_mentions", mentions),
                 "unique_urls_combined", Cardinality(page_urls \cup thread_urls))
        ELSE counted

\* body of the loop of _analyze_identifiers
IdStep(all_ids, item) ==
    LET i == FirstField(item, ID_FIELDS, Has)
    IN  IF i = 0 THEN all_ids ELSE Append(all_ids, PyStr(item[ID_FIELDS[i]]))

\* _analyze_identifiers
AnalyzeIdentifiers(m, its) ==
    LET all_ids == FoldItems(IdStep, <<>>, its, 1)
        n == Len(all_ids)
        u == Cardinality(Range(all_ids))
        counted == Put(Put(m, "items_with_ids", n), "unique_ids", u)
    IN  IF all_ids = <<>> THEN m
        ELSE IF n > u
             THEN Put(Put(counted, "duplicate_items", n - u), "duplication_rate", Frac(n - u, n))
             ELSE counted

\* body of the loop of _analyze_authors
AuthorsStep(authors, item) ==
    LET i == FirstField(item, AUTHOR_FIELDS, IsPresentTruthy)
    IN  IF i = 0 THEN authors ELSE Append(authors, PyStr(item[AUTHOR_FIELDS[i]]))

\* _analyze_authors
AnalyzeAuthors(m, its) ==
    LET authors == FoldItems(AuthorsStep, <<>>, its, 1)
        u == Cardinality(Range(authors))
    IN  IF authors = <<>> THEN m
        ELSE Put(Put(Put(m, "items_with_authors", Len(authors)), "unique_authors", u),
                 "items_per_author", Frac(Len(authors), u))

\* re.search(prefix + "(" + class + "+)", s).group(1), <<>> when there is no match:
\* the leftmost place where prefix is followed by a class character, then the
\* longest run of class characters
RegexGroup(s, prefix, InClass(_)) ==
    LET starts == {i \in 1..Len(s) :
                      /\ MatchesAt(s, i, prefix)
                      /\ i + Len(prefix) <= Len(s)
                      /\ InClass(s[i + Len(prefix)])}
        i == CHOOSE a \in starts : \A b \in starts : a <= b
        from == i + Len(prefix)
        ends == {e \in from..Len(s) :
                    /\ \A j \in from..e : InClass(s[j])
                    /\ (e = Len(s) \/ ~InClass(s[e + 1]))}
    IN  IF starts = {} THEN <<>> ELSE SubSeq(s, from, CHOOSE e \in ends : TRUE)

\* the last group of groups that is not empty, <<>> if all are
LastGroup(groups) ==
    LET hits == {i \in DOMAIN groups : groups[i] # <<>>}
    IN  IF hits = {} THEN <<>> ELSE groups[CHOOSE i \in hits : \A j \in hits : i >= j]

\* the first group of groups that is not empty, <<>> if all are
FirstGroup(groups) ==
    LET hits == {i \in DOMAIN groups : groups[i] # <<>>}
    IN  IF hits = {} THEN <<>> ELSE groups[CHOOSE i \in hits : \A j \in hits : i <= j]

\* THREAD_ID_PATTERNS in listed order, the first match wins
ThreadIdFromUrl(s) ==
    FirstGroup(<<RegexGroup(s, THREADS_MARK, IsDigit),
                 RegexGroup(s, <<"/", "t", "/">>, NotSlash),
                 RegexGroup(s, <<"/", "t", "o", "p", "i", "c", "/">>, IsDigit),
                 RegexGroup(s, <<"/", "d", "i", "s", "c", "u", "s", "s", "i", "o", "n", "/">>,
                            IsDigit)>>)

ThreadsInit == [err |-> FALSE, thread_ids |-> <<>>]

\* lines 301-302: whether the item is probed for a url, and the url probed
ProbesUrl(item) == Has(item, "thread_url") \/ Has(item, "url")
ThreadUrl(item) == PyOr(Get(item, "thread_url"), GetOr(item, "url", Str(<<>>)))

\* lines 310-311: the id matched in the url, else the thread_id or topic_id field
ThreadIdOr(matched, item) ==
    IF matched # <<>> THEN Str(matched)
    ELSE PyOr(Get(item, "thread_id"), Get(item, "topic_id"))

\* lines 313-314
KeepThreadId(acc, thread_id) ==
    IF Truthy(thread_id) THEN [acc EXCEPT !.thread_ids = Append(@, PyStr(thread_id))]
    ELSE acc

\* lines 304-308 for a url that is a str
ThreadsStepUrl(acc, item, url) == KeepThreadId(acc, ThreadIdOr(ThreadIdFromUrl(url.s), item))

\* body of the loop of _analyze_threads; re.search raises TypeError for a
\* url that is not a str
ThreadsStepProbed(acc, item, url) ==
    IF ~IsStr(url) THEN [acc EXCEPT !.err = TRUE] ELSE ThreadsStepUrl(acc, item, url)

ThreadsStep(acc, item) ==
    IF acc.err THEN acc
    ELSE IF ProbesUrl(item) THEN ThreadsStepProbed(acc, item, ThreadUrl(item))
    ELSE KeepThreadId(acc, ThreadIdOr(<<>>, item))

\* lines 316-333 for a non-empty thread_ids with u distinct ids
ThreadsCounted(m, n, u) ==
    IF "total_items" \in DOMAIN m /\ m["total_items"] # 0
    THEN Put(Put(Put(Put(m, "unique_threads", u), "total_thread_items", n),
                 "avg_items_per_thread", Frac(n, u)),
             "thread_coverage_breadth", Frac(u, m["total_items"]))
    ELSE Put(Put(Put(m, "unique_threads", u), "total_thread_items", n),
             "avg_items_per_thread", Frac(n, u))

ThreadsMetrics(m, thread_ids) ==
    IF thread_ids = <<>> THEN m
    ELSE ThreadsCounted(m, Len(thread_ids), Cardinality(Range(thread_ids)))

\* the accumulators of _analyze_threads after its loop
ThreadsLoop(its) == FoldItems(ThreadsStep, ThreadsInit, its, 1)

\* _analyze_threads
AnalyzeThreads(m, its) == ThreadsMetrics(m, ThreadsLoop(its).thread_ids)

AnalyzeThreadsRaises(its) == ThreadsLoop(its).err

\* _analyze_temporal_data
AnalyzeTemporalData(m, its) ==
    LET dates_found ==
            Cardinality({i \in DOMAIN its : FirstField(its[i], DATE_FIELDS, IsPresentTruthy) # 0})
    IN  IF dates_found > 0
        THEN Put(Put(m, "items_with_dates", dates_found),
                 "temporal_coverage", Frac(dates_found, Len(its)))
        ELSE m

\* the analyzers called before _analyze_threads (lines 101-107)
AnalyzeBeforeThreads(all_items, files_analyzed) ==
    AnalyzeAuthors(
        AnalyzeIdentifiers(
            AnalyzeUrls(
                AnalyzeTextContent(
                    Put(Put(<<>>, "total_items", Len(all_items)),
                        "files_analyzed", files_analyzed),
                    all_items),
                all_items),
            all_items),
        all_items)

\* lines 108-111; what _analyze_threads raises leaves calculate_all_metrics
AnalyzeFromThreads(m, all_items) ==
    IF AnalyzeThreadsRaises(all_items) THEN [err |-> TRUE, metrics |-> m]
    ELSE [err |-> FALSE,
          metrics |-> AnalyzeTemporalData(AnalyzeThreads(m, all_items), all_items)]

\* the analysis part of calculate_all_metrics (lines 98-111) over the loaded
\* items; files_analyzed is the number of files that held at least one item
AnalyzeAllItems(all_items, files_analyzed) ==
    IF all_items = <<>> THEN [err |-> FALSE, metrics |-> <<>>]
    ELSE AnalyzeFromThreads(AnalyzeBeforeThreads(all_items, files_analyzed), all_items)

-----------------------------------------------------------------------------
(* The state before BenchmarkRunner.run_benchmark is called. *)

\* the declared output files of the run, as _config_scrapy declares them for
\* the tunisia_sat spider: two .jsonl files and the vocabulary file
output_files == <<[stem |-> "tunisia_sat_posts", suffix |-> ".jsonl"],
                  [stem |-> "tunisia_sat_pages", suffix |-> ".jsonl"],
                  [stem |-> "tunisia_sat_words", suffix |-> ".json"]>>

TIMEOUT_STATUS == -1

NoResult == <<>>

InitEnv ==
    /\ executable_exists \in BOOLEAN
    /\ procState = "notstarted"
    /\ procExit = 0
    /\ now = 0
    /\ files = [f \in DOMAIN output_files |-> <<>>]
    /\ created = {}

\* a host on which the process keeps one size, has no descendants and no load
InitQuietHost ==
    /\ pid_visible = TRUE
    /\ rss = 1
    /\ children = {}
    /\ cpu_load = 0

NoSample == [called |-> FALSE, read |-> FALSE, memory_mb |-> 0, parent |-> 0,
             listed |-> {}, vanished |-> {}]

\* MetricsCollector.__init__
InitCollector ==
    /\ target_process = "None"
    /\ peak_memory = 0
    /\ cpu_samples = <<>>
    /\ cpu_readings = <<>>
    /\ last_sample = NoSample

\* no call of run_benchmark is under way
\* a response that has not arrived
NoUrl == [scheme |-> "", path |-> 0, fragment |-> ""]
NoResponse == [url |-> NoUrl, normalized |-> NoUrl, result |-> "none", schedules_more |-> FALSE]

\* no spider is crawling: the counters of an untouched TunaiScrapersSpider
InitIdleSpider ==
    /\ max_pages = 1
    /\ pages_visited = 0
    /\ visited_urls = {}
    /\ closing = FALSE
    /\ responses = 0
    /\ last_response = NoResponse
    /\ processed = {}

InitNoCalls ==
    /\ wall_clock = 0
    /\ calls = <<>>
    /\ written = {}

InitRun ==
    /\ pc = "execute"
    /\ metrics_start = 0
    /\ start_time = 0
    /\ elapsed = 0
    /\ exit_code = 0
    /\ killed = FALSE
    /\ poll_tie = FALSE
    /\ polled = "unpolled"
    /\ samples = 0
    /\ items_count = 0
    /\ success = FALSE
    /\ result_dict = NoResult
    /\ result_files = <<>>
    /\ raised = "none"

-----------------------------------------------------------------------------
(* SpecMetrics: the analyzers over a record list, in every order. *)

Repeat(c, n) == [i \in 1..n |-> c]

TXT_HI == <<"h", "i">>
TXT_BYE == <<"b", "y", "e">>
TXT_LONG == Repeat("x", MIN_NONTRIVIAL_TEXT_LENGTH)
URL_THREAD_12 == <<"/", "f">> \o THREADS_MARK \o <<"1", "2">>

\* the records the lists are drawn from
RecordPool ==
    { Item([id |-> Str(<<"a">>), text |-> Str(TXT_HI)]),
      Item([id |-> Str(<<"b">>), text |-> Str(TXT_BYE)]),
      Item([text |-> Str(TXT_HI)]),
      Item([post_id |-> Str(<<"a">>), text |-> Str(<<>>), author |-> Str(<<>>)]),
      Item([author |-> Str(<<"n">>), url |-> Str(URL_THREAD_12 \o <<"/", "p">>),
            date |-> Str(<<"2", "0", "2", "4">>)]),
      Item([url |-> Num(5)]),
      Item([id |-> Num(5), text |-> Num(5), author |-> JList]),
      Item([thread_url |-> Str(URL_THREAD_12), post_id |-> Str(<<"5">>),
            text |-> Str(TXT_LONG), author |-> Null, thread_id |-> Num(7)]) }

ItemLists == UNION {[1..n -> RecordPool] : n \in 0..MaxItems}

\* what the analyzers return for a list: the three analyzers of
\* EnhancedMetricsAnalyzer and MetricsAnalyzer's metrics
AnalysisOf(its) ==
    [duplication |-> AnalyzeDuplication(its),
     authors |-> AnalyzeAuthorCoverage(its),
     crawl |-> AnalyzeCrawlBehavior(its),
     quality |-> AnalyzeAllItems(its, 1)]

InitMetrics ==
    /\ items \in ItemLists
    /\ base = <<>>
    /\ cur = <<>>
    /\ InitEnv /\ executable_exists
    /\ InitRun
    /\ InitQuietHost
    /\ InitCollector
    /\ InitIdleSpider
    /\ InitNoCalls

\* the analyzers are applied to the list in its current order
AnalyzeItems ==
    /\ cur = <<>>
    /\ cur' = <<AnalysisOf(items)>>
    /\ base' = IF base = <<>> THEN <<AnalysisOf(items), items>> ELSE base
    /\ UNCHANGED <<items, envVars, runVars>>
    /\ UNCHANGED <<hostVars, collectorVars, callVars, spiderVars>>

\* the same records reach the analyzers in another order
Reorder(i) ==
    /\ base # <<>>
    /\ i < Len(items)
    /\ items[i] # items[i + 1]
    /\ items' = [items EXCEPT ![i] = items[i + 1], ![i + 1] = items[i]]
    /\ cur' = <<>>
    /\ UNCHANGED <<base, envVars, runVars>>
    /\ UNCHANGED <<hostVars, collectorVars, callVars, spiderVars>>

NextMetrics == AnalyzeItems \/ \E i \in 1..MaxItems : Reorder(i)

SpecMetrics == InitMetrics /\ [][NextMetrics]_vars


-----------------------------------------------------------------------------
(* SpecThreads: the analyzers over lists of records with thread urls and     *)
(* thread fields.                                                            *)

URL_T_AB_TOPIC_7 == <<"/", "t", "/", "a", "b", "/", "t", "o", "p", "i", "c", "/", "7">>
URL_TOPIC_7 == <<"/", "t", "o", "p", "i", "c", "/", "7">>
URL_X == <<"/", "x">>
URL_T_ZZ == <<"/", "t", "/", "z", "z">>

\* the records the lists are drawn from
ThreadPool ==
    { Item([url |-> Str(URL_T_AB_TOPIC_7)]),
      Item([thread_url |-> Str(<<>>), url |-> Str(URL_TOPIC_7), thread_id |-> Str(<<"9">>)]),
      Item([url |-> Str(URL_X), thread_id |-> Num(0), topic_id |-> Num(3)]),
      Item([thread_url |-> Str(URL_THREAD_12), url |-> Str(URL_T_ZZ), thread_id |-> Num(7)]),
      Item([thread_url |-> Str(URL_X), url |-> Str(URL_THREAD_12)]),
      Item([id |-> Str(<<"a">>), thread_id |-> Str(<<"9">>), topic_id |-> Num(3)]) }

ThreadLists == UNION {[1..n -> ThreadPool] : n \in 0..MaxItems}

InitThreads ==
    /\ items \in ThreadLists
    /\ base = <<>>
    /\ cur = <<>>
    /\ InitEnv /\ executable_exists
    /\ InitRun
    /\ InitQuietHost
    /\ InitCollector
    /\ InitIdleSpider
    /\ InitNoCalls

SpecThreads == InitThreads /\ [][NextMetrics]_vars


-----------------------------------------------------------------------------
(* Spec: one call of BenchmarkRunner._execute_benchmark. *)

ExitCodes == {0, 1, 2}
SIGKILL_STATUS == -9

\* what json.loads makes of a line: a record, JSONDecodeError, or (fatal) an
\* error that is not a JSONDecodeError: RecursionError for nesting past the
\* recursion limit, ValueError for an integer past the digit limit
GoodLine == [ok |-> TRUE, fatal |-> FALSE,
             item |-> Item([id |-> Str(<<"a">>), text |-> Str(TXT_HI)])]
OddLine == [ok |-> TRUE, fatal |-> FALSE, item |-> Item([url |-> Num(5)])]
PageLine == [ok |-> TRUE, fatal |-> FALSE,
             item |-> Item([url |-> Str(<<"/", "p">>), text |-> Str(TXT_BYE)])]
BadLine == [ok |-> FALSE, fatal |-> FALSE, item |-> Item(<<>>)]
DeepLine == [ok |-> FALSE, fatal |-> TRUE, item |-> Item(<<>>)]

\* the lines the supervised process may write to a declared output file
LinesFor(f) ==
    IF output_files[f].suffix # ".jsonl" THEN {BadLine}
    ELSE IF f = 1 THEN {GoodLine, OddLine, BadLine, DeepLine}
    ELSE {GoodLine, PageLine}

\* lines written so far, over all output files
RECURSIVE TotalLines(_)
TotalLines(f) == IF f > Len(output_files) THEN 0 ELSE Len(files[f]) + TotalLines(f + 1)

\* _count_items_in_jsonl: "sum(1 for _ in file)"
CountItemsInJsonl(f) == Len(files[f])

\* "sum(self._count_items_in_jsonl(f) for f in output_files if f.exists())"
RECURSIVE CountFrom(_)
CountFrom(f) ==
    IF f > Len(output_files) THEN 0
    ELSE (IF f \in created THEN CountItemsInJsonl(f) ELSE 0) + CountFrom(f + 1)

IsOk(line) == line.ok

\* the lines the loop of _load_jsonl reaches: those before the first line whose
\* error is caught by the outer "except Exception: pass"
ReadLines(lines) ==
    LET stops == {i \in DOMAIN lines : lines[i].fatal}
    IN  IF stops = {} THEN lines
        ELSE SubSeq(lines, 1, (CHOOSE i \in stops : \A j \in stops : i <= j) - 1)

\* _load_jsonl: the lines json.loads accepts among those reached, in file order
LoadJsonl(f) ==
    LET kept == SelectSeq(ReadLines(files[f]), IsOk) IN [i \in DOMAIN kept |-> kept[i].item]

\* the files calculate_all_metrics loads: existing, with the .jsonl suffix
Loadable(f) == f \in created /\ output_files[f].suffix = ".jsonl"

RECURSIVE LoadFrom(_)
LoadFrom(f) ==
    IF f > Len(output_files) THEN <<>>
    ELSE (IF Loadable(f) THEN LoadJsonl(f) ELSE <<>>) \o LoadFrom(f + 1)

\* MetricsAnalyzer(output_files).calculate_all_metrics()
CalculateAllMetrics ==
    AnalyzeAllItems(LoadFrom(1),
                    Cardinality({f \in DOMAIN output_files : Loadable(f) /\ LoadJsonl(f) # <<>>}))

\* the files _add_quality_metrics opens for the enhanced metrics
IsPostsFile(f) ==
    /\ output_files[f].suffix = ".jsonl"
    /\ output_files[f].stem \in {"posts", "reddit_posts", "tunisia_sat_posts"}

\* lines 427-432: every line json.loads accepts, in file order
PostsLines(f) ==
    LET kept == SelectSeq(files[f], IsOk) IN [i \in DOMAIN kept |-> kept[i].item]

RECURSIVE PostsFrom(_)
PostsFrom(f) ==
    IF f > Len(output_files) THEN <<>>
    ELSE (IF IsPostsFile(f) THEN PostsLines(f) ELSE <<>>) \o PostsFrom(f + 1)

\* the try block of _add_quality_metrics (lines 421-437): the key it adds
EnhancedMetrics(m) ==
    LET posts == PostsFrom(1)
        all == [duplication |-> AnalyzeDuplication(posts),
                authors |-> AnalyzeAuthorCoverage(posts),
                crawl |-> AnalyzeCrawlBehavior(posts)]
    IN  IF \E f \in DOMAIN output_files : IsPostsFile(f) /\ f \notin created
        THEN Put(m, "enhanced_metrics_error", "FileNotFoundError")
        ELSE IF \E f \in DOMAIN output_files :
                    IsPostsFile(f) /\ \E i \in DOMAIN files[f] : files[f][i].fatal
        THEN Put(m, "enhanced_metrics_error", "RecursionError")
        ELSE IF posts = <<>> THEN m
        ELSE IF all.duplication.err \/ all.authors.err \/ all.crawl.err
        THEN Put(m, "enhanced_metrics_error", "TypeError")
        ELSE Put(m, "enhanced_metrics", all)

\* lines 439-446: the throughput figures
Throughput(m, quality, runtime_seconds) ==
    LET total_items == IF "total_items" \in DOMAIN quality THEN quality["total_items"] ELSE 0
        items_with_text ==
            IF "items_with_text" \in DOMAIN quality THEN quality["items_with_text"] ELSE 0
        m1 == IF total_items > 0
              THEN Put(m, "items_per_second", Frac(total_items, runtime_seconds)) ELSE m
    IN  IF runtime_seconds > 0
        THEN IF items_with_text > 0
             THEN Put(m1, "text_items_per_second", Frac(items_with_text, runtime_seconds))
             ELSE m1
        ELSE m

\* a success flag that fails only the timed-out run
SuccessUnlessTimeout(code) == code # TIMEOUT_STATUS

\* success = exit_code == 0
SuccessOf(code) == code = 0

\* ---- benchmarks/metrics.py: MetricsCollector

\* the errors the except clauses of attach_to_process and sample name
CAUGHT == {"NoSuchProcess", "AccessDenied"}

\* no except clause at all
CaughtNothing(error) == FALSE

\* "except (psutil.NoSuchProcess, psutil.AccessDenied)"
Caught(error) == error \in CAUGHT

\* a test that never sees None
NeverNone(target) == FALSE

\* "self._target_process is None"
IsNone(target) == target = "None"

\* the last reading replaces the peak
LastReading(peak, memory_mb) == memory_mb

\* max(self._peak_memory, memory_mb)
PeakAfter(peak, memory_mb) == IF memory_mb > peak THEN memory_mb ELSE peak

\* child c holds c MB
ChildRss(c) == c

RECURSIVE SumRss(_)
SumRss(S) == IF S = {} THEN 0 ELSE LET c == CHOOSE x \in S : TRUE IN ChildRss(c) + SumRss(S \ {c})

RECURSIVE SumSeq(_)
SumSeq(seq) == IF seq = <<>> THEN 0 ELSE Head(seq) + SumSeq(Tail(seq))

\* attach_to_process: psutil.Process(pid) raises for a pid it cannot see and
\* the handle is never assigned
AttachResult == IF pid_visible THEN "Process" ELSE "None"

\* what the psutil calls of one sample() do: memory_info() of the process (an
\* exited, unreaped process reads as 0 or raises), children(recursive=True),
\* memory_info() of each listed child (those in vanished raise), cpu_percent
\* (which raises only for a process that is gone)
SampleOutcomes ==
    [parent : IF procState = "running" THEN {"ok"} ELSE {"ok", "NoSuchProcess"},
     listing : {"ok", "NoSuchProcess"},
     vanished : SUBSET children,
     cpu : IF procState = "running" THEN {"ok"} ELSE {"ok", "NoSuchProcess"}]

ParentRss == IF procState = "running" THEN rss ELSE 0

\* the descendants children(recursive=True) returns
Listed(o) == IF o.listing = "ok" /\ procState = "running" THEN children ELSE {}

\* the children whose memory_info() raises
Vanished(o) == o.vanished \cap Listed(o)

\* memory_mb at line 66
MemoryMb(o) == ParentRss + SumRss(Listed(o) \ Vanished(o))

\* an error of the try block of lines 53-72 that no except clause takes
SampleRaises(o) ==
    /\ ~IsNone(target_process)
    /\ \/ o.parent # "ok" /\ ~Caught(o.parent)
       \/ Vanished(o) # {} /\ ~Caught("NoSuchProcess")
       \/ o.listing # "ok" /\ procState = "running" /\ ~Caught(o.listing)
       \/ o.cpu # "ok" /\ ~Caught(o.cpu)

\* line 66 is reached: the process was read and the loop over the children
\* ended
SumComputed(o) ==
    /\ ~IsNone(target_process)
    /\ o.parent = "ok"
    /\ Vanished(o) = {} \/ Caught("NoSuchProcess")
    /\ o.listing = "ok" \/ procState # "running" \/ Caught(o.listing)

\* a sampler that keeps every reading
KeepsEveryReading(cpu) == TRUE

\* "if cpu and cpu > 0"
KeepsReading(cpu) == cpu > 0

\* MetricsCollector.sample with the psutil outcomes o
SampleCall(o) ==
    /\ target_process' = target_process
    /\ peak_memory' = IF SumComputed(o) THEN PeakAfter(peak_memory, MemoryMb(o))
                      ELSE peak_memory
    /\ cpu_samples' = IF SumComputed(o) /\ o.cpu = "ok" /\ KeepsReading(cpu_load)
                      THEN Append(cpu_samples, cpu_load) ELSE cpu_samples
    /\ cpu_readings' = IF SumComputed(o) /\ o.cpu = "ok"
                       THEN Append(cpu_readings, cpu_load) ELSE cpu_readings
    /\ last_sample' = [called |-> TRUE, read |-> SumComputed(o),
                       memory_mb |-> IF SumComputed(o) THEN MemoryMb(o) ELSE 0,
                       parent |-> IF SumComputed(o) THEN ParentRss ELSE 0,
                       listed |-> IF SumComputed(o) THEN Listed(o) ELSE {},
                       vanished |-> IF SumComputed(o) THEN Vanished(o) ELSE {}]

\* MetricsCollector.stop: the report fields; the names of the run are those
\* the collector was made with, the timestamp is the clock at the stop
StopMetrics(count, ok) ==
    LET runtime == now - metrics_start
    IN  Put(Put(Put(Put(Put(Put(Put(Put(Put(Put(<<>>,
            "total_runtime_seconds", runtime),
            "items_extracted", count),
            "items_per_second", RateOrZero(count, runtime)),
            "peak_memory_mb", peak_memory),
            "avg_cpu_percent", RateOrZero(SumSeq(cpu_samples), Len(cpu_samples))),
            "success", ok),
            "collector_name", "scrapy_tunisia_sat"),
            "scenario_name", "limit"),
            "timestamp", now),
            "log_file", "scrapy_tunisia_sat.log")


PastRun == {"count", "stop", "quality", "save", "returned"}

\* lines 352-357: the log file is named and metrics.start() reads the clock
Execute ==
    /\ pc = "execute"
    /\ metrics_start' = now
    /\ pc' = "popen"
    /\ UNCHANGED <<envVars, metricVars, start_time, elapsed, exit_code, killed, poll_tie, polled,
                   samples, items_count, success, result_dict, result_files, raised>>
    /\ UNCHANGED <<hostVars, collectorVars, callVars, spiderVars>>

\* lines 391-395: subprocess.Popen starts the command or raises; the collector
\* is attached to the new process
Popen ==
    /\ pc = "popen"
    /\ IF executable_exists
       THEN /\ procState' = "running"
            /\ target_process' = AttachResult
            /\ start_time' = now
            /\ pc' = "poll"
            /\ raised' = raised
       ELSE /\ pc' = "raised"
            /\ raised' = "popen"
            /\ UNCHANGED <<procState, start_time, target_process>>
    /\ UNCHANGED <<peak_memory, cpu_samples, cpu_readings, last_sample>>
    /\ UNCHANGED <<executable_exists, procExit, now, files, created, metricVars,
                   metrics_start, elapsed, exit_code, killed, poll_tie, polled, samples,
                   items_count, success, result_dict, result_files>>
    /\ UNCHANGED <<hostVars, callVars, spiderVars>>

\* the same iteration with the two checks in the other order
PollTimeoutFirst ==
    /\ pc = "poll"
    /\ poll_tie' = (procState = "exited" /\ now - start_time > TimeoutTicks)
    /\ polled' = IF procState = "exited" THEN "code" ELSE "None"
    /\ IF now - start_time > TimeoutTicks
       THEN /\ killed' = TRUE
            /\ exit_code' = TIMEOUT_STATUS
            /\ pc' = "count"
       ELSE /\ killed' = killed
            /\ exit_code' = IF procState = "exited" THEN procExit ELSE exit_code
            /\ pc' = IF procState = "exited" THEN "count" ELSE "timecheck"
    /\ procState' = IF now - start_time > TimeoutTicks THEN "exited" ELSE procState
    /\ procExit' = IF now - start_time > TimeoutTicks /\ procState = "running"
                   THEN SIGKILL_STATUS ELSE procExit
    /\ UNCHANGED <<executable_exists, now, files, created, metricVars, metrics_start,
                   start_time, elapsed, samples, items_count, success, result_dict,
                   result_files, raised>>
    /\ UNCHANGED <<hostVars, collectorVars, callVars, spiderVars>>

\* a loop that goes on to the timeout check and the sample whatever the poll
\* returned
PollKeepsLooping ==
    /\ pc = "poll"
    /\ poll_tie' = (procState = "exited" /\ now - start_time > TimeoutTicks)
    /\ polled' = IF procState = "exited" THEN "code" ELSE "None"
    /\ exit_code' = IF procState = "exited" THEN procExit ELSE exit_code
    /\ pc' = "timecheck"
    /\ UNCHANGED <<envVars, metricVars, metrics_start, start_time, elapsed, killed,
                   samples, items_count, success, result_dict, result_files, raised>>
    /\ UNCHANGED <<hostVars, collectorVars, callVars, spiderVars>>

\* lines 397-399: process.poll(), and the return of the exit code
Poll ==
    /\ pc = "poll"
    /\ poll_tie' = (procState = "exited" /\ now - start_time > TimeoutTicks)
    /\ polled' = IF procState = "exited" THEN "code" ELSE "None"
    /\ IF procState = "exited"
       THEN exit_code' = procExit /\ pc' = "count"
       ELSE exit_code' = exit_code /\ pc' = "timecheck"
    /\ UNCHANGED <<envVars, metricVars, metrics_start, start_time, elapsed, killed,
                   samples, items_count, success, result_dict, result_files, raised>>
    /\ UNCHANGED <<hostVars, collectorVars, callVars, spiderVars>>

\* the timeout branch without process.kill() and process.wait()
TimeCheckNoKill ==
    /\ pc = "timecheck"
    /\ elapsed' = now - start_time
    /\ IF elapsed' > TimeoutTicks
       THEN exit_code' = TIMEOUT_STATUS /\ pc' = "count"
       ELSE exit_code' = exit_code /\ pc' = "sample"
    /\ UNCHANGED <<envVars, metricVars, metrics_start, start_time, killed, poll_tie, polled,
                   samples, items_count, success, result_dict, result_files, raised>>
    /\ UNCHANGED <<hostVars, collectorVars, callVars, spiderVars>>

\* lines 401-404: the timeout check; kill() leaves a process that has exited
\* since the poll alone, wait() reaps it
TimeCheck ==
    /\ pc = "timecheck"
    /\ elapsed' = now - start_time
    /\ IF elapsed' > TimeoutTicks
       THEN /\ killed' = TRUE
            /\ procState' = "exited"
            /\ procExit' = IF procState = "running" THEN SIGKILL_STATUS ELSE procExit
            /\ exit_code' = TIMEOUT_STATUS
            /\ pc' = "count"
       ELSE /\ pc' = "sample"
            /\ UNCHANGED <<killed, procState, procExit, exit_code>>
    /\ UNCHANGED <<executable_exists, now, files, created, metricVars, metrics_start,
                   start_time, poll_tie, polled, samples, items_count, success, result_dict,
                   result_files, raised>>
    /\ UNCHANGED <<hostVars, collectorVars, callVars, spiderVars>>

\* line 406: metrics.sample()
Sample ==
    /\ pc = "sample"
    /\ samples' = samples + 1
    /\ \E o \in SampleOutcomes :
          /\ SampleCall(o)
          /\ pc' = IF SampleRaises(o) THEN "raised" ELSE "sleep"
          /\ raised' = IF SampleRaises(o) THEN "sample" ELSE raised
    /\ UNCHANGED <<envVars, metricVars, metrics_start, start_time, elapsed, exit_code,
                   killed, poll_tie, polled, items_count, success, result_dict, result_files>>
    /\ UNCHANGED <<hostVars, callVars, spiderVars>>

\* a sleep that never ends: the supervisor stays where it is
SleepNeverReturns ==
    /\ pc = "sleep"
    /\ UNCHANGED vars

\* line 407: time.sleep(RESOURCE_SAMPLE_INTERVAL_SECONDS)
Sleep ==
    /\ pc = "sleep"
    /\ now' = now + 1
    /\ pc' = "poll"
    /\ UNCHANGED <<executable_exists, procState, procExit, files, created, metricVars,
                   metrics_start, start_time, elapsed, exit_code, killed, poll_tie, polled,
                   samples, items_count, success, result_dict, result_files, raised>>
    /\ UNCHANGED <<hostVars, collectorVars, callVars, spiderVars>>


\* lines 361-362: the item count and the success flag
CountItems ==
    /\ pc = "count"
    /\ items_count' = CountFrom(1)
    /\ success' = SuccessOf(exit_code)
    /\ pc' = "stop"
    /\ UNCHANGED <<envVars, metricVars, metrics_start, start_time, elapsed, exit_code,
                   killed, poll_tie, polled, samples, result_dict, result_files, raised>>
    /\ UNCHANGED <<hostVars, collectorVars, callVars, spiderVars>>

\* lines 364-367 and 372-373: metrics.stop(), model_dump(); a failed run
\* prints the error summary and goes on to save
Stop ==
    /\ pc = "stop"
    /\ result_dict' = StopMetrics(items_count, success)
    /\ pc' = IF success THEN "quality" ELSE "save"
    /\ UNCHANGED <<envVars, metricVars, metrics_start, start_time, elapsed, exit_code,
                   killed, poll_tie, polled, samples, items_count, success, result_files, raised>>
    /\ UNCHANGED <<hostVars, collectorVars, callVars, spiderVars>>

\* a merge that keeps only the other mapping
Replace(d, other) == other

\* d.update(other)
Update(d, other) == other @@ d

\* lines 368-371: _add_quality_metrics; calculate_all_metrics is called outside
\* the try block, so what it raises leaves _execute_benchmark
AddQualityMetrics ==
    /\ pc = "quality"
    /\ LET quality == CalculateAllMetrics
           runtime_seconds == result_dict["total_runtime_seconds"]
       IN  IF quality.err
           THEN /\ pc' = "raised"
                /\ raised' = "calculate_all_metrics"
                /\ result_dict' = result_dict
           ELSE /\ pc' = "save"
                /\ raised' = raised
                /\ result_dict' = Throughput(EnhancedMetrics(Update(result_dict, quality.metrics)),
                                             quality.metrics, runtime_seconds)
    /\ items' = LoadFrom(1)
    /\ UNCHANGED <<envVars, base, cur, metrics_start, start_time, elapsed, exit_code,
                   killed, poll_tie, polled, samples, items_count, success, result_files>>
    /\ UNCHANGED <<hostVars, collectorVars, callVars, spiderVars>>

\* lines 375-381: _save_results writes the result document, the mapping is returned
SaveResults ==
    /\ pc = "save"
    /\ result_files' = Append(result_files, result_dict)
    /\ pc' = "returned"
    /\ UNCHANGED <<envVars, metricVars, metrics_start, start_time, elapsed, exit_code,
                   killed, poll_tie, polled, samples, items_count, success, result_dict, raised>>
    /\ UNCHANGED <<hostVars, collectorVars, callVars, spiderVars>>

\* the supervised process appends a line to one of its output files
ProcWrite(f, line) ==
    /\ procState = "running"
    /\ TotalLines(1) < MaxLines
    /\ files' = [files EXCEPT ![f] = Append(@, line)]
    /\ created' = created \cup {f}
    /\ UNCHANGED <<executable_exists, procState, procExit, now, runVars, metricVars>>
    /\ UNCHANGED <<hostVars, collectorVars, callVars, spiderVars>>

\* the supervised process exits on its own
ProcExit(code) ==
    /\ procState = "running"
    /\ procState' = "exited"
    /\ procExit' = code
    /\ UNCHANGED <<executable_exists, now, files, created, runVars, metricVars>>
    /\ UNCHANGED <<hostVars, collectorVars, callVars, spiderVars>>

\* time passes between two steps of the poll loop
Tick ==
    /\ pc \in {"poll", "timecheck", "sample", "sleep"}
    /\ now < MaxTime
    /\ now' = now + 1
    /\ UNCHANGED <<executable_exists, procState, procExit, files, created, runVars,
                   metricVars>>
    /\ UNCHANGED <<hostVars, collectorVars, callVars, spiderVars>>

Init ==
    /\ InitEnv
    /\ InitRun
    /\ InitQuietHost
    /\ InitCollector
    /\ InitIdleSpider
    /\ InitNoCalls
    /\ items = <<>>
    /\ base = <<>>
    /\ cur = <<>>

Next ==
    \/ Execute
    \/ Popen
    \/ Poll
    \/ TimeCheck
    \/ Sample
    \/ Sleep
    \/ CountItems
    \/ Stop
    \/ AddQualityMetrics
    \/ SaveResults
    \/ \E f \in DOMAIN output_files : \E line \in LinesFor(f) : ProcWrite(f, line)
    \/ \E code \in ExitCodes : ProcExit(code)
    \/ Tick

Spec == Init /\ [][Next]_vars


-----------------------------------------------------------------------------
(* SpecLoop: _run_process and the steps up to the report, with a supervisor  *)
(* that keeps running: its thread is scheduled again after every step, so a  *)
(* step of it that stays possible is taken. The supervised process and the   *)
(* clock between the steps are free.                                         *)

\* the steps of the supervisor's thread
Supervisor ==
    \/ Execute
    \/ Popen
    \/ Poll
    \/ TimeCheck
    \/ Sample
    \/ Sleep
    \/ CountItems
    \/ Stop

NextLoop ==
    \/ Supervisor
    \/ \E code \in ExitCodes : ProcExit(code)
    \/ Tick

SpecLoop == Init /\ [][NextLoop]_vars /\ WF_vars(Supervisor)


-----------------------------------------------------------------------------
(* SpecSampler: the poll loop and the sampler on a host that changes. *)

InitSampler ==
    /\ InitEnv /\ executable_exists
    /\ InitRun
    /\ InitCollector
    /\ InitIdleSpider
    /\ InitNoCalls
    /\ pid_visible \in BOOLEAN
    /\ rss \in 1..MaxRss
    /\ children = {}
    /\ cpu_load = 1
    /\ items = <<>>
    /\ base = <<>>
    /\ cur = <<>>

\* the supervised process starts a descendant
Spawn(c) ==
    /\ procState = "running"
    /\ c \notin children
    /\ children' = children \cup {c}
    /\ UNCHANGED <<pid_visible, rss, cpu_load, envVars, runVars, metricVars, collectorVars,
                   callVars, spiderVars>>

\* a descendant exits
ChildExit(c) ==
    /\ c \in children
    /\ children' = children \ {c}
    /\ UNCHANGED <<pid_visible, rss, cpu_load, envVars, runVars, metricVars, collectorVars,
                   callVars, spiderVars>>

NextSampler ==
    \/ Execute
    \/ Popen
    \/ Poll
    \/ TimeCheck
    \/ Sample
    \/ Sleep
    \/ CountItems
    \/ Stop
    \/ \E code \in ExitCodes : ProcExit(code)
    \/ \E c \in 1..MaxChildren : Spawn(c)
    \/ \E c \in 1..MaxChildren : ChildExit(c)

SpecSampler == InitSampler /\ [][NextSampler]_vars


-----------------------------------------------------------------------------
(* SpecCpu: the poll loop and the sampler on a host whose processor load     *)
(* changes between the samples.                                              *)

\* what cpu_percent(None) may read
Loads == {0, 1, 3}

InitCpu ==
    /\ InitEnv /\ executable_exists
    /\ InitRun
    /\ InitCollector
    /\ InitIdleSpider
    /\ InitNoCalls
    /\ pid_visible \in BOOLEAN
    /\ rss = 1
    /\ children = {}
    /\ cpu_load \in Loads
    /\ items = <<>>
    /\ base = <<>>
    /\ cur = <<>>

\* the load of the supervised process changes
Load(l) ==
    /\ procState = "running"
    /\ l # cpu_load
    /\ cpu_load' = l
    /\ UNCHANGED <<pid_visible, rss, children, envVars, runVars, metricVars, collectorVars,
                   callVars, spiderVars>>

NextCpu ==
    \/ Execute
    \/ Popen
    \/ Poll
    \/ TimeCheck
    \/ Sample
    \/ Sleep
    \/ CountItems
    \/ Stop
    \/ \E code \in ExitCodes : ProcExit(code)
    \/ \E l \in Loads : Load(l)

SpecCpu == InitCpu /\ [][NextCpu]_vars


-----------------------------------------------------------------------------
(* SpecCalls: concurrent calls of BenchmarkRunner.run_benchmark on the same  *)
(* data, log and result directories. A collector name is its part after the  *)
(* "scrapy_" prefix and whether it has the prefix. A stamp is time.strftime  *)
(* of TIMESTAMP_FORMAT_FILE: the clock in whole seconds.                      *)

\* the collectors and the spiders that have a configuration
COLLECTORS == {"reddit", "sites", "tunisia_sat", "derja_ninja", "youtube", "facebook"}
SPIDERS == {"reddit", "sites", "tunisia_sat", "derja_ninja", "youtube", "facebook_groups"}

\* the names and limits the calls are made with
CollectorNames ==
    {[scrapy |-> FALSE, base |-> "reddit"], [scrapy |-> FALSE, base |-> "nope"],
     [scrapy |-> TRUE, base |-> "reddit"], [scrapy |-> TRUE, base |-> "facebook"]}
Limits == {1, 2}

\* a lookup that accepts every name
AllKnown(name) == TRUE

\* _get_collector_config and _config_scrapy find a configuration for the name:
\* the if/elif chains of the two lookups: the else branch raises ValueError
IsKnown(name) ==
    IF name.scrapy
    THEN \/ name.base = "reddit"
         \/ name.base = "sites"
         \/ name.base = "tunisia_sat"
         \/ name.base = "derja_ninja"
         \/ name.base = "youtube"
         \/ name.base = "facebook_groups"
    ELSE \/ name.base = "reddit"
         \/ name.base = "sites"
         \/ name.base = "tunisia_sat"
         \/ name.base = "derja_ninja"
         \/ name.base = "youtube"
         \/ name.base = "facebook"

NoName == [scrapy |-> FALSE, base |-> ""]
IdleCall == [pc |-> "idle", collector_name |-> NoName, limit |-> 0,
             data_stamp |-> 0, file_stamp |-> 0]

\* data_dir / f"{collector_name}_{limit}_{timestamp}"
RunDataDir(call) ==
    [kind |-> "data", collector_name |-> call.collector_name, limit |-> call.limit,
     stamp |-> call.data_stamp]

\* run_data_dir / "output"
OutDir(call) == [RunDataDir(call) EXCEPT !.kind = "output"]

\* logs_dir / f"{collector_name}_{timestamp}.log"
LogFile(call) ==
    [kind |-> "log", collector_name |-> call.collector_name, limit |-> 0,
     stamp |-> call.file_stamp]

\* results_dir / f"{collector_name}_{timestamp}.json"
ResultFile(call) == [LogFile(call) EXCEPT !.kind = "result"]

InitCalls ==
    /\ InitEnv /\ executable_exists
    /\ InitRun
    /\ InitQuietHost
    /\ InitCollector
    /\ InitIdleSpider
    /\ items = <<>>
    /\ base = <<>>
    /\ cur = <<>>
    /\ wall_clock = 0
    /\ calls = [c \in 1..MaxCalls |-> IdleCall]
    /\ written = {}

\* run_benchmark lines 90-94: the stamp is read and the data directory made;
\* _get_collector_config returns the configuration or raises ValueError, and
\* _config_scrapy makes its output directory before it looks the spider up
CallStart(c, name, limit) ==
    /\ calls[c].pc = "idle"
    /\ calls' = [calls EXCEPT ![c] = [pc |-> IF IsKnown(name) THEN "execute" ELSE "raised",
                                      collector_name |-> name, limit |-> limit,
                                      data_stamp |-> wall_clock, file_stamp |-> 0]]
    /\ written' = written \cup {<<RunDataDir(calls'[c]), c>>}
                      \cup (IF name.scrapy THEN {<<OutDir(calls'[c]), c>>} ELSE {})
    /\ UNCHANGED <<wall_clock, envVars, runVars, metricVars, hostVars, collectorVars,
                   spiderVars>>

\* _execute_benchmark lines 352-353 and _run_process lines 391-392: the stamp
\* is read again, the log file is opened for writing and the process started
OpenLog(c) ==
    /\ calls[c].pc = "execute"
    /\ calls' = [calls EXCEPT ![c].pc = "running", ![c].file_stamp = wall_clock]
    /\ written' = written \cup {<<LogFile(calls'[c]), c>>}
    /\ UNCHANGED <<wall_clock, envVars, runVars, metricVars, hostVars, collectorVars,
                   spiderVars>>

\* line 375: _save_results writes the result file of the call
SaveCall(c) ==
    /\ calls[c].pc = "running"
    /\ calls' = [calls EXCEPT ![c].pc = "returned"]
    /\ written' = written \cup {<<ResultFile(calls[c]), c>>}
    /\ UNCHANGED <<wall_clock, envVars, runVars, metricVars, hostVars, collectorVars,
                   spiderVars>>

\* a second passes
Second ==
    /\ wall_clock < MaxSeconds
    /\ wall_clock' = wall_clock + 1
    /\ UNCHANGED <<calls, written, envVars, runVars, metricVars, hostVars, collectorVars,
                   spiderVars>>

NextCalls ==
    \/ \E c \in 1..MaxCalls : \E name \in CollectorNames : \E limit \in Limits :
           CallStart(c, name, limit)
    \/ \E c \in 1..MaxCalls : OpenLog(c)
    \/ \E c \in 1..MaxCalls : SaveCall(c)
    \/ Second

SpecCalls == InitCalls /\ [][NextCalls]_vars


-----------------------------------------------------------------------------
(* SpecSpider: a spider derived from TunaiScrapersSpider and the responses   *)
(* its parse callback is called with, one at a time (callbacks run on the    *)
(* reactor thread). A url is its scheme, its address and its fragment.       *)

\* the urls responses arrive for: more addresses than the largest limit
Urls == [scheme : {"https", "file"}, path : 1..(MaxPages + 1), fragment : {"", "top"}]

\* normalize_url(base, href) for an absolute href: urljoin gives href, urldefrag
\* drops the fragment, and a scheme other than http or https gives None
NormalizeUrl(base_url, href) ==
    IF href.scheme \notin {"http", "https"} THEN NoUrl ELSE [href EXCEPT !.fragment = ""]

\* a page limit that is never reached
LimitNeverReached(visited, limit) == FALSE

\* "if self.pages_visited >= self.max_pages"
LimitReached(visited, limit) == visited >= limit

\* a spider that never starts closing
ClosingKept(flag, visited, limit) == flag

\* "if self.pages_visited == self.max_pages: self.closing = True"
ClosingAfter(flag, visited, limit) == IF visited = limit THEN TRUE ELSE flag

\* should_schedule_more
ShouldScheduleMore == ~closing

\* what should_process_page does for a normalized url: "True", "False" or
\* "CloseSpider"
ResultFor(normalized) ==
    IF normalized = NoUrl THEN "True"
    ELSE IF LimitReached(pages_visited, max_pages)
    THEN (IF normalized \notin visited_urls THEN "CloseSpider" ELSE "False")
    ELSE "True"

\* should_process_page counts the url: a new url below the limit
Counts(normalized) ==
    /\ normalized # NoUrl
    /\ ~LimitReached(pages_visited, max_pages)
    /\ normalized \notin visited_urls

\* TunisiaSatSpider.parse for one response: should_process_page, then the
\* page is processed and should_schedule_more decides whether links are
\* followed
Parse(url) ==
    /\ responses < MaxResponses
    /\ responses' = responses + 1
    /\ LET normalized == NormalizeUrl(url, url)
           result == ResultFor(normalized)
       IN  /\ IF Counts(normalized)
              THEN /\ visited_urls' = visited_urls \cup {normalized}
                   /\ pages_visited' = pages_visited + 1
                   /\ closing' = ClosingAfter(closing, pages_visited', max_pages)
              ELSE UNCHANGED <<visited_urls, pages_visited, closing>>
           /\ last_response' = [url |-> url, normalized |-> normalized, result |-> result,
                                 schedules_more |-> result = "True" /\ ~closing']
           /\ processed' = IF result = "True" /\ normalized # NoUrl
                           THEN processed \cup {normalized} ELSE processed
    /\ UNCHANGED <<max_pages, envVars, runVars, metricVars, hostVars, collectorVars, callVars>>

\* TunaiScrapersSpider.__init__ with max_pages given
InitSpider ==
    /\ InitEnv /\ executable_exists
    /\ InitRun
    /\ InitQuietHost
    /\ InitCollector
    /\ InitNoCalls
    /\ items = <<>>
    /\ base = <<>>
    /\ cur = <<>>
    /\ max_pages \in 0..MaxPages
    /\ pages_visited = 0
    /\ visited_urls = {}
    /\ closing = FALSE
    /\ responses = 0
    /\ last_response = NoResponse
    /\ processed = {}

NextSpider == \E url \in Urls : Parse(url)

SpecSpider == InitSpider /\ [][NextSpider]_vars


-----------------------------------------------------------------------------
(* Properties of the supervisor, checked under Spec. *)

\* C1: when a poll observes the exit in an iteration in which the elapsed time
\* also exceeds the timeout, _run_process returns the process's own exit code,
\* not the timeout status, and the process is not killed
ExitCheckPrecedesTimeout ==
    (poll_tie /\ pc \in PastRun) =>
        /\ exit_code = procExit
        /\ exit_code # TIMEOUT_STATUS
        /\ ~killed

\* C1 witness: a run has returned after such a poll
ExitWonTheTie == pc = "returned" /\ poll_tie /\ now - start_time > TimeoutTicks

\* C2: a process still running when the elapsed time exceeds the timeout is
\* killed and reaped, _run_process returns -1 and the report has success=false,
\* whatever the output files hold
TimeoutKillsAndFails ==
    /\ pc \in {"sample", "sleep"} => elapsed <= TimeoutTicks
    /\ (pc \in PastRun /\ elapsed > TimeoutTicks) =>
           /\ killed
           /\ procState = "exited"
           /\ exit_code = TIMEOUT_STATUS
    /\ (pc \in PastRun /\ exit_code = TIMEOUT_STATUS /\ result_dict # NoResult) =>
           result_dict["success"] = FALSE
    /\ (pc = "returned" /\ exit_code = TIMEOUT_STATUS) =>
           /\ Len(result_files) = 1
           /\ result_files[1]["success"] = FALSE

\* C2 witness: a killed run has reported after the process filled its posts file
TimedOutWithOutput ==
    /\ pc = "returned"
    /\ killed
    /\ procExit = SIGKILL_STATUS
    /\ Len(files[1]) = MaxLines
    /\ result_files[1]["success"] = FALSE

\* C3: whatever the outcome of the supervisor, the report's success flag is
\* true exactly when the exit code is 0
SuccessIffExitZero ==
    /\ pc \in {"stop", "quality", "save", "returned"} => (success <=> exit_code = 0)
    /\ result_dict # NoResult => (result_dict["success"] <=> exit_code = 0)
    /\ \A i \in DOMAIN result_files : result_files[i]["success"] <=> exit_code = 0

\* C3 witness: a run whose process exited with a non-zero code has reported
NonZeroExitReported ==
    /\ pc = "returned"
    /\ ~killed
    /\ exit_code = 2
    /\ result_files[1]["success"] = FALSE

\* C4: however a started process ends, _execute_benchmark returns after
\* writing exactly one result document, marked success=false for a failed run
HarnessAlwaysReports ==
    (procState # "notstarted" /\ pc \in {"returned", "raised"}) =>
        /\ pc = "returned"
        /\ Len(result_files) = 1
        /\ exit_code # 0 => result_files[1]["success"] = FALSE

\* C5: a command that cannot be started is reported with success=false and
\* nothing is raised to the caller of _execute_benchmark
LaunchFailureIsReported ==
    (~executable_exists /\ pc \in {"returned", "raised"}) =>
        /\ pc = "returned"
        /\ raised = "none"
        /\ Len(result_files) = 1
        /\ result_files[1]["success"] = FALSE

\* records that json.loads accepts in file f
ParsedFrom(f) == Len(SelectSeq(files[f], IsOk))

\* sum over the existing output files of the records parsed from them
RECURSIVE ParsedCountFrom(_)
ParsedCountFrom(f) ==
    IF f > Len(output_files) THEN 0
    ELSE (IF f \in created THEN ParsedFrom(f) ELSE 0) + ParsedCountFrom(f + 1)

\* C6: items_extracted is the number of records parsed from the existing
\* output files; malformed lines are not counted
ItemsExtractedCountsParsedRecords ==
    result_dict # NoResult => result_dict["items_extracted"] = ParsedCountFrom(1)

\* C7: after exit code 0 with K valid JSONL lines in the declared output
\* files, the report has items_extracted = K and items_per_second = K / runtime
\* (0 if the runtime is 0)
ExitZeroReportsValidLines ==
    (pc = "returned" /\ exit_code = 0) =>
        /\ result_dict["items_extracted"] = ParsedCountFrom(1)
        /\ FracEq(result_dict["items_per_second"],
                  RateOrZero(ParsedCountFrom(1), result_dict["total_runtime_seconds"]))
        /\ FracEq(result_dict["items_per_second"],
                  RateOrZero(result_dict["items_extracted"],
                             result_dict["total_runtime_seconds"]))


-----------------------------------------------------------------------------
(* Properties of the analyzers, checked under SpecMetrics. *)

\* the rate metrics of an analysis: those of the analyzers that returned
RatesOf(a) ==
    (IF a.duplication.err THEN {}
     ELSE {a.duplication.duplication_rate, a.duplication.id_duplication_rate,
           a.duplication.content_duplication_rate})
    \cup (IF a.authors.err THEN {} ELSE {a.authors.author_coverage_rate})
    \cup (IF a.quality.err THEN {}
          ELSE {a.quality.metrics[key] :
                   key \in DOMAIN a.quality.metrics
                           \cap {"non_trivial_text_rate", "duplication_rate",
                                 "thread_coverage_breadth", "temporal_coverage"}})

\* C8: every rate metric of the analyzers lies in [0, 1], and is 0 when its
\* denominator is 0
RatesInUnitInterval ==
    cur # <<>> =>
        /\ \A rate \in RatesOf(cur[1]) : InUnitInterval(rate)
        /\ (~cur[1].duplication.err /\ cur[1].duplication.total_posts = 0) =>
               /\ cur[1].duplication.duplication_rate = Zero
               /\ cur[1].duplication.id_duplication_rate = Zero
               /\ cur[1].duplication.content_duplication_rate = Zero
        /\ (~cur[1].authors.err /\ items = <<>>) => cur[1].authors.author_coverage_rate = Zero

\* C9: for every record list, whatever JSON values the probed fields hold, no
\* analyzer ends in an error
AnalyzersNeverRaise ==
    cur # <<>> =>
        /\ ~cur[1].quality.err
        /\ ~cur[1].duplication.err
        /\ ~cur[1].authors.err
        /\ ~cur[1].crawl.err

\* the duplication_rate key of the identifier analyzer, when it is written
IdentifierDuplication(a) ==
    IF "duplication_rate" \in DOMAIN a.quality.metrics
    THEN <<a.quality.metrics["duplication_rate"]>> ELSE <<>>

\* C10: the duplication rates of analyze_duplication and of the identifier
\* analyzer are the same for a record list and for every reordering of it
DuplicationRatesOrderInvariant ==
    (base # <<>> /\ cur # <<>>) =>
        /\ cur[1].duplication.err = base[1].duplication.err
        /\ ~cur[1].duplication.err =>
               /\ cur[1].duplication.duplication_rate = base[1].duplication.duplication_rate
               /\ cur[1].duplication.id_duplication_rate
                      = base[1].duplication.id_duplication_rate
               /\ cur[1].duplication.content_duplication_rate
                      = base[1].duplication.content_duplication_rate
        /\ cur[1].quality.err = base[1].quality.err
        /\ IdentifierDuplication(cur[1]) = IdentifierDuplication(base[1])

\* C10 witness: a reordered list with repeated texts and repeated ids has been
\* analyzed again
ReorderedDuplicatesAnalyzed ==
    /\ base # <<>>
    /\ cur # <<>>
    /\ base[2] # items
    /\ ~cur[1].duplication.err
    /\ cur[1].duplication.duplication_rate.num > 0
    /\ cur[1].duplication.id_duplication_rate.num > 0
    /\ IdentifierDuplication(cur[1]) # <<>>


-----------------------------------------------------------------------------
(* Properties of the loader, checked under Spec. *)

\* calculate_all_metrics has been called in this run
Analysed == (pc \in {"save", "returned"} /\ success) \/ raised = "calculate_all_metrics"

\* the records of the well-formed lines of file f, in file order
WellFormed(f) ==
    LET kept == SelectSeq(files[f], IsOk) IN [i \in DOMAIN kept |-> kept[i].item]

\* C11: loading a file with N well-formed and M malformed lines, in any
\* interleaving, yields exactly N records
LoadYieldsWellFormedLines ==
    Analysed =>
        \A f \in DOMAIN output_files :
            Loadable(f) => Len(LoadJsonl(f)) = Len(WellFormed(f))

\* concatenation, in list order, of the well-formed records of the existing
\* .jsonl files
RECURSIVE WellFormedFrom(_)
WellFormedFrom(f) ==
    IF f > Len(output_files) THEN <<>>
    ELSE (IF f \in created /\ output_files[f].suffix = ".jsonl" THEN WellFormed(f) ELSE <<>>)
             \o WellFormedFrom(f + 1)

\* total_items of the report, 0 when the key was not written
TotalItemsOf(m) == IF "total_items" \in DOMAIN m THEN m["total_items"] ELSE 0

\* C12: the analysed record sequence is the concatenation, in list order, of
\* the well-formed records of each existing .jsonl file in file order; missing
\* files and files without the extension contribute nothing, nothing is
\* reordered or removed, and total_items is its length
AnalysedIsConcatenation ==
    /\ Analysed => items = WellFormedFrom(1)
    /\ (pc \in {"save", "returned"} /\ success) =>
           TotalItemsOf(result_dict) = Len(WellFormedFrom(1))


-----------------------------------------------------------------------------
(* Properties of the analyzers' figures, checked under SpecMetrics. *)

\* the text lengths of a record list, in list order
RECURSIVE TextLengthsOf(_)
TextLengthsOf(its) ==
    IF its = <<>> THEN <<>>
    ELSE (IF ExtractText(its[1], TEXT_FIELDS) = <<>> THEN <<>>
          ELSE <<Len(ExtractText(its[1], TEXT_FIELDS))>>) \o TextLengthsOf(Tail(its))

\* element k (from 0) of the ascending order of lens: the value with at most k
\* elements below it and more than k elements not above it
Ranked(lens, k) ==
    CHOOSE v \in Range(lens) :
        /\ Cardinality({i \in DOMAIN lens : lens[i] < v}) <= k
        /\ Cardinality({i \in DOMAIN lens : lens[i] <= v}) > k

\* the three order statistics of the report against those of lens
OrderStatsMatch(m, lens) ==
    /\ (Len(lens) \div 2) \in 0..(Len(lens) - 1)
    /\ (Len(lens) \div 4) \in 0..(Len(lens) - 1)
    /\ ((3 * Len(lens)) \div 4) \in 0..(Len(lens) - 1)
    /\ m["median_text_length"] = Ranked(lens, Len(lens) \div 2)
    /\ m["text_length_p25"] = Ranked(lens, Len(lens) \div 4)
    /\ m["text_length_p75"] = Ranked(lens, (3 * Len(lens)) \div 4)
    /\ {m["median_text_length"], m["text_length_p25"], m["text_length_p75"]}
           \subseteq Range(lens)

PostIdOf(item) == PyOr(Get(item, "post_id"), Get(item, "id"))

\* every item has a non-empty id and a non-empty text
AllHaveIdAndText(its) ==
    \A i \in DOMAIN its :
        /\ Truthy(PostIdOf(its[i])) /\ Hashable(PostIdOf(its[i]))
        /\ IsStr(Get(its[i], "text")) /\ Get(its[i], "text").s # <<>>

IdsOf(its) == {PostIdOf(its[i]) : i \in DOMAIN its}
TextsOf(its) == {Get(its[i], "text").s : i \in DOMAIN its}
SharingId(its, id) == Cardinality({i \in DOMAIN its : PostIdOf(its[i]) = id})

\* the figures of a duplication report d against the record list its
DuplicationFiguresOf(d, its) ==
    /\ ~d.err
    /\ d.total_posts = Len(its)
    /\ d.unique_post_ids = Cardinality(IdsOf(its))
    /\ d.unique_content_hashes = Cardinality(TextsOf(its))
    /\ d.duplicate_count = Len(its) - Cardinality(TextsOf(its))
    /\ d.id_duplication_rate = Frac(Len(its) - Cardinality(IdsOf(its)), Len(its))
    /\ d.content_duplication_rate = Frac(Len(its) - Cardinality(TextsOf(its)), Len(its))
    /\ \E id \in IdsOf(its) : d.max_duplications = SharingId(its, id)
    /\ \A id \in IdsOf(its) : d.max_duplications >= SharingId(its, id)

\* C14: for a list in which every item has a non-empty id and a non-empty
\* text, analyze_duplication returns the number of items, of distinct ids and
\* of distinct texts, duplicate_count = total - distinct texts, the two rates
\* over total_posts and the largest number of items sharing an id
DuplicationFiguresExact ==
    (cur # <<>> /\ items # <<>> /\ AllHaveIdAndText(items)) =>
        DuplicationFiguresOf(cur[1].duplication, items)

\* C14 witness: [a/hi, a/hi, b/bye] in some order, with the id b first, gives
\* 3, 2, 2, 1, 1/3, 1/3, 2
ExampleDuplicationAnalyzed ==
    /\ cur # <<>>
    /\ Len(items) = 3
    /\ AllHaveIdAndText(items)
    /\ PostIdOf(items[1]) = Str(<<"b">>)
    /\ cur[1].duplication.total_posts = 3
    /\ cur[1].duplication.unique_post_ids = 2
    /\ cur[1].duplication.unique_content_hashes = 2
    /\ cur[1].duplication.duplicate_count = 1
    /\ cur[1].duplication.id_duplication_rate = Frac(1, 3)
    /\ cur[1].duplication.content_duplication_rate = Frac(1, 3)
    /\ cur[1].duplication.max_duplications = 2

\* an item with a non-empty author: present, not null, not the empty string
HasNonEmptyAuthor(item) ==
    Get(item, "author").k # "null" /\ Get(item, "author") # Str(<<>>)

NonEmptyAuthors(its) ==
    {Get(its[i], "author") : i \in {j \in DOMAIN its : HasNonEmptyAuthor(its[j])}}

\* C15: analyze_author_coverage returns author_coverage_rate =
\* posts_with_authors / total_items and avg_posts_per_author =
\* posts_with_authors / unique_authors (0 without authors), with and without
\* adding up to total_items, posts_with_authors counting the items with a
\* non-empty author
AuthorCoverageExact ==
    (cur # <<>> /\ ~cur[1].authors.err) =>
        /\ cur[1].authors.posts_with_authors
               = Cardinality({i \in DOMAIN items : HasNonEmptyAuthor(items[i])})
        /\ cur[1].authors.unique_authors = Cardinality(NonEmptyAuthors(items))
        /\ cur[1].authors.posts_with_authors + cur[1].authors.posts_without_authors
               = Len(items)
        /\ cur[1].authors.author_coverage_rate
               = RateOrZero(cur[1].authors.posts_with_authors, Len(items))
        /\ cur[1].authors.avg_posts_per_author
               = RateOrZero(cur[1].authors.posts_with_authors, cur[1].authors.unique_authors)


-----------------------------------------------------------------------------
(* Properties of the sampler, checked under SpecSampler. *)

\* a step that is a call of sample()
SampleStep == samples' = samples + 1

\* the memory sum the last sample() call read, 0 if it read none
LastSum == IF last_sample.read THEN last_sample.memory_mb ELSE 0

\* C16: the peak never decreases; after a sample that read its memory sum the
\* peak is at least that sum; every sample leaves the larger of the old peak
\* and its sum, so the peak is the maximum over the samples (0 before the
\* first), and the report carries it as peak_memory_mb
PeakIsRunningMaximum ==
    /\ [](/\ last_sample.read => peak_memory >= last_sample.memory_mb
          /\ samples = 0 => peak_memory = 0
          /\ result_dict # NoResult => result_dict["peak_memory_mb"] = peak_memory)
    /\ [][/\ peak_memory' >= peak_memory
          /\ SampleStep =>
                 /\ peak_memory' >= LastSum'
                 /\ peak_memory' \in {peak_memory, LastSum'}
          /\ ~SampleStep => peak_memory' = peak_memory]_vars

\* C16 witness: a report was made after a sample that read less than the peak
PeakKeptOverSmallerSample ==
    /\ pc \in {"quality", "save"}
    /\ last_sample.read
    /\ last_sample.memory_mb > 0
    /\ last_sample.memory_mb < peak_memory
    /\ result_dict["peak_memory_mb"] = peak_memory

\* C17: sample() always returns normally and the poll loop goes on; a child
\* that vanished between listing and reading adds nothing to the sum, the other
\* listed children and the process are summed
SamplingNeverFailsTheRun ==
    /\ pc # "raised"
    /\ raised = "none"
    /\ last_sample.read =>
           last_sample.memory_mb
               = last_sample.parent + SumRss(last_sample.listed \ last_sample.vanished)

\* C17 witness: the loop is at its next poll after a sample in which one of two
\* listed children had vanished
SampledWithVanishedChild ==
    /\ pc = "poll"
    /\ last_sample.read
    /\ Cardinality(last_sample.listed) = 2
    /\ Cardinality(last_sample.vanished) = 1
    /\ last_sample.parent > 0
    /\ last_sample.memory_mb > last_sample.parent
    /\ peak_memory >= last_sample.memory_mb

\* C18: a sample() call on a collector without a process handle (never
\* attached, or the attach failed) changes neither the peak nor the CPU
\* readings and raises nothing
SampleUnattachedIsNoOp ==
    [][(SampleStep /\ target_process = "None") =>
           /\ peak_memory' = peak_memory
           /\ cpu_samples' = cpu_samples
           /\ target_process' = target_process
           /\ raised' = "none"
           /\ pc' = "sleep"]_vars

\* C18 witness: sample() was called without a handle while the process was
\* running with memory, load and a descendant to read
SampledUnattached ==
    /\ target_process = "None"
    /\ last_sample.called
    /\ procState = "running"
    /\ children # {}
    /\ cpu_load > 0
    /\ peak_memory = 0
    /\ cpu_samples = <<>>


-----------------------------------------------------------------------------
(* Properties of the calls, checked under SpecCalls. *)

\* C19: two runs never write the same path: the data directory, the log file
\* and the result file of a run differ from those of every other run
RunsWriteDistinctPaths ==
    \A v \in written : \A w \in written : v[1] = w[1] => v[2] = w[2]

\* the paths call c has created or written
WrittenBy(c) == {w[1] : w \in {v \in written : v[2] = c}}

\* a name that is no collector, or a scrapy_ name whose rest is no spider
UnknownName(name) ==
    IF name.scrapy THEN name.base \notin SPIDERS ELSE name.base \notin COLLECTORS

\* C20: a call with an unknown collector name, or an unknown spider after the
\* scrapy_ prefix, raises ValueError before a process is started, and writes
\* no log file and no result file
UnknownCollectorIsFatal ==
    \A c \in DOMAIN calls :
        (calls[c].pc # "idle" /\ UnknownName(calls[c].collector_name)) =>
            /\ calls[c].pc = "raised"
            /\ \A path \in WrittenBy(c) : path.kind \notin {"log", "result"}

\* C20 witness: a call for an unknown spider has raised while another call, for
\* a known collector, has written its log file
UnknownSpiderRaised ==
    \E c \in DOMAIN calls : \E d \in DOMAIN calls :
        /\ calls[c].pc = "raised"
        /\ calls[c].collector_name = [scrapy |-> TRUE, base |-> "facebook"]
        /\ OutDir(calls[c]) \in WrittenBy(c)
        /\ calls[d].pc = "running"
        /\ LogFile(calls[d]) \in WrittenBy(d)


-----------------------------------------------------------------------------
(* Properties of the analyzers' blocks, checked under SpecMetrics. *)

\* the keys each analyzer writes
TEXT_KEYS == {"items_with_text", "items_missing_text", "non_trivial_text_rate",
              "avg_text_length", "total_text_chars", "min_text_length", "max_text_length",
              "median_text_length", "text_length_p25", "text_length_p75"}
URL_KEYS == {"unique_page_urls", "unique_thread_urls", "total_url_mentions",
             "unique_urls_combined"}
ID_KEYS == {"items_with_ids", "unique_ids", "duplicate_items", "duplication_rate"}
AUTHOR_KEYS == {"items_with_authors", "unique_authors", "items_per_author"}
THREAD_KEYS == {"unique_threads", "total_thread_items", "avg_items_per_thread",
                "thread_coverage_breadth"}
DATE_KEYS == {"items_with_dates", "temporal_coverage"}

\* no record of the list has a value for any of the fields
NoValueIn(its, names) ==
    \A i \in DOMAIN its : \A j \in DOMAIN names : ~IsPresentTruthy(its[i], names[j])

\* the keys an analysis must omit: those of every concept the list has no
\* value for
KeysToOmit(its) ==
    (IF NoValueIn(its, TEXT_FIELDS) THEN TEXT_KEYS ELSE {})
    \cup (IF NoValueIn(its, URL_FIELDS) THEN URL_KEYS ELSE {})
    \cup (IF NoValueIn(its, ID_FIELDS) THEN ID_KEYS ELSE {})
    \cup (IF NoValueIn(its, AUTHOR_FIELDS) THEN AUTHOR_KEYS ELSE {})
    \cup (IF NoValueIn(its, <<"thread_url", "url", "thread_id", "topic_id">>)
          THEN THREAD_KEYS ELSE {})
    \cup (IF NoValueIn(its, DATE_FIELDS) THEN DATE_KEYS ELSE {})

\* C21: for a non-empty record list, an analyzer whose concept has no value in
\* any record (text, URL, id, author, thread, date) writes none of its keys
EmptyConceptOmitsBlock ==
    (cur # <<>> /\ items # <<>> /\ ~cur[1].quality.err) =>
        DOMAIN cur[1].quality.metrics \cap KeysToOmit(items) = {}


-----------------------------------------------------------------------------
(* Properties of the throughput figures, checked under Spec. *)

\* the analysed records whose text has at least MIN_NONTRIVIAL_TEXT_LENGTH
\* characters
NonTrivialTextItems(its) ==
    Cardinality({i \in DOMAIN its :
                    Len(ExtractText(its[i], TEXT_FIELDS)) >= MIN_NONTRIVIAL_TEXT_LENGTH})

\* text_items_per_second of a report, 0 when the key was not written
TextItemsPerSecondOf(m) ==
    IF "text_items_per_second" \in DOMAIN m THEN m["text_items_per_second"] ELSE Zero

\* C22: text_items_per_second of the report of a successful run is the number
\* of analysed items with non-trivial text divided by the runtime, and 0 when
\* the runtime is 0
TextRateCountsNonTrivialText ==
    (pc \in {"save", "returned"} /\ success) =>
        FracEq(TextItemsPerSecondOf(result_dict),
               RateOrZero(NonTrivialTextItems(items), result_dict["total_runtime_seconds"]))


-----------------------------------------------------------------------------
(* Properties of the page limit, checked under SpecSpider. *)

\* a response has been handed to parse in this step
ResponseStep == responses' = responses + 1

\* C23: should_process_page returns True for at most max_pages distinct
\* normalized urls, pages_visited never exceeds max_pages, and a response for
\* a url not yet visited that arrives when pages_visited has reached max_pages
\* raises CloseSpider
SpiderStopsAtMaxPages ==
    /\ [](/\ Cardinality(processed) <= max_pages
          /\ pages_visited <= max_pages)
    /\ [][(/\ ResponseStep
            /\ pages_visited >= max_pages
            /\ last_response'.normalized # NoUrl
            /\ last_response'.normalized \notin visited_urls)
              => last_response'.result = "CloseSpider"]_vars

\* C23 witness: a spider with the largest limit has processed that many
\* distinct pages and the response for a further page has raised CloseSpider
ClosedAtLimit ==
    /\ max_pages = MaxPages
    /\ pages_visited = max_pages
    /\ Cardinality(processed) = max_pages
    /\ last_response.result = "CloseSpider"
    /\ last_response.normalized \notin visited_urls

\* C30: with max_pages >= 1, pages_visited is the size of visited_urls,
\* closing holds exactly when pages_visited equals max_pages, closing is never
\* reset (no links are followed once it is set), and a call that returns False
\* or raises CloseSpider changes none of the three
SpiderCountersConsistent ==
    /\ [](max_pages >= 1 =>
             /\ pages_visited = Cardinality(visited_urls)
             /\ closing <=> pages_visited = max_pages
             /\ closing => ~last_response.schedules_more)
    /\ [][max_pages >= 1 =>
             /\ closing => closing'
             /\ (ResponseStep /\ last_response'.result \in {"False", "CloseSpider"})
                    => UNCHANGED <<pages_visited, visited_urls, closing>>]_vars

\* C30 witness: a closing spider has returned False for a page it had visited,
\* after it followed the links of an earlier page
ClosingSpiderRefusedPage ==
    /\ max_pages = MaxPages
    /\ closing
    /\ pages_visited = max_pages
    /\ last_response.result = "False"
    /\ last_response.normalized \in visited_urls
    /\ responses > max_pages


-----------------------------------------------------------------------------
(* Properties of the poll loop, checked under Spec. *)

\* the positions of one iteration of the loop of _run_process, in order
LOOP_ORDER == <<"poll", "timecheck", "sample", "sleep">>

\* the position after position p of the loop, the first after the last
NextInLoop(p) ==
    LET i == CHOOSE j \in DOMAIN LOOP_ORDER : LOOP_ORDER[j] = p
    IN  LOOP_ORDER[(i % Len(LOOP_ORDER)) + 1]

\* C24: an iteration of the poll loop is the exit-status check, the timeout
\* check, one sample and one sleep, in this order; a sample is taken only
\* after the poll of its iteration found the process running and its timeout
\* check found the timeout not exceeded, never after the exit was observed or
\* the process was killed
LoopChecksThenSamplesThenSleeps ==
    [][/\ (pc \in Range(LOOP_ORDER) /\ pc' # pc) =>
              \/ pc' = NextInLoop(pc)
              \/ pc \in {"poll", "timecheck"} /\ pc' = "count"
       /\ (pc = "sample" /\ pc' # pc) => samples' = samples + 1
       /\ (pc = "sleep" /\ pc' # pc) => now' = now + 1
       /\ samples' # samples =>
              /\ pc = "sample" /\ pc' = "sleep"
              /\ samples' = samples + 1
              /\ polled = "None"
              /\ elapsed <= TimeoutTicks
              /\ ~killed
       /\ (pc \in PastRun \/ killed) => samples' = samples]_vars

\* C24 witness: a run has returned after two full iterations of the loop
TwoIterationsSampled ==
    /\ pc = "returned"
    /\ samples = 2
    /\ polled = "code"
    /\ ~killed
    /\ now >= 2


-----------------------------------------------------------------------------
(* Properties of the thread analyzer, checked under SpecThreads. *)

\* the url of a record that the patterns are tried against: thread_url, or url
\* when thread_url is absent or empty
UrlTried(item) ==
    IF Has(item, "thread_url") /\ item["thread_url"] # Str(<<>>) THEN item["thread_url"]
    ELSE IF Has(item, "url") THEN item["url"]
    ELSE Str(<<>>)

\* what each path pattern yields in s, in the listed order
PatternIds(s) ==
    <<RegexGroup(s, <<"/", "t", "h", "r", "e", "a", "d", "s", "/">>, IsDigit),
      RegexGroup(s, <<"/", "t", "/">>, NotSlash),
      RegexGroup(s, <<"/", "t", "o", "p", "i", "c", "/">>, IsDigit),
      RegexGroup(s, <<"/", "d", "i", "s", "c", "u", "s", "s", "i", "o", "n", "/">>, IsDigit)>>

\* the id of the first pattern that matches, else the thread_id field, else
\* the topic_id field, else <<>>
IdByPatternOrField(ids, item) ==
    IF \E k \in DOMAIN ids : ids[k] # <<>>
    THEN ids[CHOOSE k \in DOMAIN ids : ids[k] # <<>> /\ \A j \in 1..(k - 1) : ids[j] = <<>>]
    ELSE IF Truthy(Get(item, "thread_id")) THEN PyStr(Get(item, "thread_id"))
    ELSE IF Truthy(Get(item, "topic_id")) THEN PyStr(Get(item, "topic_id"))
    ELSE <<>>

ExpectedThreadId(item) == IdByPatternOrField(PatternIds(UrlTried(item).s), item)

\* the thread ids of the records that have one, in list order
RECURSIVE ExpectedThreadIds(_)
ExpectedThreadIds(its) ==
    IF its = <<>> THEN <<>>
    ELSE (IF ExpectedThreadId(Head(its)) = <<>> THEN <<>>
          ELSE <<ExpectedThreadId(Head(its))>>) \o ExpectedThreadIds(Tail(its))

\* the thread counts of the metrics are those of the id list
ThreadCountsMatch(m, ids) ==
    IF ids = <<>> THEN "unique_threads" \notin DOMAIN m
    ELSE /\ "unique_threads" \in DOMAIN m
         /\ m["unique_threads"] = Cardinality(Range(ids))
         /\ m["total_thread_items"] = Len(ids)

\* C25: the thread id of a record is what the first matching path pattern,
\* in the listed order, yields in its thread_url (its url when thread_url is
\* absent or empty); without a match it is the thread_id field, then the
\* topic_id field; a record without any of these is in no thread group
ThreadIdByFirstPattern ==
    (cur # <<>> /\ ~cur[1].quality.err) =>
        /\ ThreadsLoop(items).thread_ids = ExpectedThreadIds(items)
        /\ ThreadCountsMatch(cur[1].quality.metrics, ExpectedThreadIds(items))

\* C25 witness: a list has been analyzed with a url matching two patterns, a
\* record whose thread_url matches none while its url would, and a record
\* falling back to topic_id
TwoPatternUrlAnalyzed ==
    /\ cur # <<>>
    /\ ~cur[1].quality.err
    /\ items = <<Item([thread_url |-> Str(URL_X), url |-> Str(URL_THREAD_12)]),
                 Item([url |-> Str(URL_T_AB_TOPIC_7)]),
                 Item([url |-> Str(URL_X), thread_id |-> Num(0), topic_id |-> Num(3)])>>
    /\ cur[1].quality.metrics["unique_threads"] = 2
    /\ cur[1].quality.metrics["total_thread_items"] = 2


-----------------------------------------------------------------------------
(* Properties of the identifier analyzer, checked under SpecMetrics. *)

\* the records of the list that have an id-like field
WithIdField(its) == {i \in DOMAIN its : \E j \in DOMAIN ID_FIELDS : Has(its[i], ID_FIELDS[j])}

\* the first present id-like field of a record that has one, as text
IdTextOf(item) ==
    PyStr(item[ID_FIELDS[CHOOSE j \in DOMAIN ID_FIELDS :
                            /\ Has(item, ID_FIELDS[j])
                            /\ \A k \in 1..(j - 1) : ~Has(item, ID_FIELDS[k])]])

\* the figures of the identifier block for n records with ids, u of them distinct
IdentifierFiguresAre(m, n, u) ==
    /\ {"items_with_ids", "unique_ids", "duplication_rate"} \subseteq DOMAIN m
    /\ m["items_with_ids"] = n
    /\ m["unique_ids"] = u
    /\ FracEq(m["duplication_rate"], Frac(n - u, n))

\* C26: for every record list with at least one id-like field, the identifier
\* analyzer reports the number of records with an id-like field, the number of
\* distinct ids (first present field of ID_FIELDS, as text) and
\* duplication_rate = (items_with_ids - unique_ids) / items_with_ids
IdentifierRateComputed ==
    (cur # <<>> /\ WithIdField(items) # {}) =>
        IdentifierFiguresAre(cur[1].quality.metrics,
                             Cardinality(WithIdField(items)),
                             Cardinality({IdTextOf(items[i]) : i \in WithIdField(items)}))


-----------------------------------------------------------------------------
(* Properties of the processor figure, checked under SpecCpu. *)

\* the readings of a sequence that are not zero, in order
RECURSIVE NonZero(_)
NonZero(readings) ==
    IF readings = <<>> THEN <<>>
    ELSE (IF Head(readings) # 0 THEN <<Head(readings)>> ELSE <<>>) \o NonZero(Tail(readings))

\* the sum of a sequence of readings
RECURSIVE Total(_)
Total(readings) == IF readings = <<>> THEN 0 ELSE Head(readings) + Total(Tail(readings))

\* the arithmetic mean of the readings, 0 for none
MeanOf(readings) ==
    IF readings = <<>> THEN Zero ELSE Frac(Total(readings), Len(readings))

\* C27: avg_cpu_percent of the report is the arithmetic mean of the non-zero
\* readings of the completed samples, in sample order, and 0 when there is
\* none
AvgCpuIsMeanOfNonZeroReadings ==
    /\ cpu_samples = NonZero(cpu_readings)
    /\ result_dict # NoResult =>
           FracEq(result_dict["avg_cpu_percent"], MeanOf(NonZero(cpu_readings)))

\* C27 witness: a run has reported after samples that read a load, no load
\* and another load
MixedLoadsReported ==
    /\ result_dict # NoResult
    /\ cpu_readings = <<3, 0, 1>>
    /\ result_dict["avg_cpu_percent"] = Frac(4, 2)


-----------------------------------------------------------------------------
(* Properties of termination, checked under SpecLoop. *)

\* C28: once the process is started _run_process returns, whatever the
\* process does; after the return its result, the kill flag and the state of
\* the process stay as they are; and a return of the timeout status comes
\* after the process was killed and reaped
SupervisorTerminates ==
    /\ (pc = "poll") ~> (pc \in PastRun)
    /\ [][(pc \in PastRun) =>
             /\ pc' \in PastRun
             /\ exit_code' = exit_code
             /\ killed' = killed
             /\ procState' = procState]_vars
    /\ [](pc \in PastRun => procState = "exited")
    /\ []((pc \in PastRun /\ exit_code = TIMEOUT_STATUS) => killed)

\* C28 witness: the supervisor has returned the timeout status for a process
\* that never exited on its own
NeverExitingProcessKilled ==
    /\ pc \in PastRun
    /\ exit_code = TIMEOUT_STATUS
    /\ killed
    /\ procExit = SIGKILL_STATUS
    /\ polled = "None"
    /\ samples > TimeoutTicks


-----------------------------------------------------------------------------
(* Properties of the merge of the quality metrics, checked under Spec. *)

\* the fields of the report that the supervisor fills
SUPERVISOR_FIELDS == {"total_runtime_seconds", "items_extracted", "peak_memory_mb",
                      "avg_cpu_percent", "success", "collector_name", "scenario_name",
                      "timestamp", "log_file"}

\* the keys of BenchmarkMetrics
REPORT_FIELDS == SUPERVISOR_FIELDS \cup {"items_per_second"}

\* the enhanced analysis cannot read a posts file: it is missing, or one of
\* its lines makes json.loads fail with an error that is not JSONDecodeError
EnhancedCannotRead ==
    \E f \in DOMAIN output_files :
        /\ output_files[f].suffix = ".jsonl"
        /\ output_files[f].stem = "tunisia_sat_posts"
        /\ f \notin created \/ \E i \in DOMAIN files[f] : files[f][i].fatal

\* C29: quality metrics are in the report only of a successful run; merging
\* them keeps every supervisor field as metrics.stop() gave it; a failure of
\* the enhanced analysis is recorded as enhanced_metrics_error and the report
\* is still written
MergeKeepsSupervisorFields ==
    /\ []((result_dict # NoResult /\ ~success) => DOMAIN result_dict = REPORT_FIELDS)
    /\ [](result_dict # NoResult => SUPERVISOR_FIELDS \subseteq DOMAIN result_dict)
    /\ [][(result_dict # NoResult) =>
             \A key \in SUPERVISOR_FIELDS : result_dict'[key] = result_dict[key]]_vars
    /\ []((pc \in {"save", "returned"} /\ success /\ EnhancedCannotRead) =>
             /\ "enhanced_metrics_error" \in DOMAIN result_dict
             /\ "enhanced_metrics" \notin DOMAIN result_dict)
    /\ [](pc = "returned" => result_files = <<result_dict>>)

\* C29 witness: a successful run has written a report that holds the merged
\* quality metrics, the supervisor's fields and the recorded failure of the
\* enhanced analysis
MergedReportWithEnhancedError ==
    /\ pc = "returned"
    /\ success
    /\ "enhanced_metrics_error" \in DOMAIN result_files[1]
    /\ "total_items" \in DOMAIN result_files[1]
    /\ result_files[1]["total_items"] > 0
    /\ result_files[1]["success"]
    /\ result_files[1]["total_runtime_seconds"] > 0

====
